---- MODULE Spec2Model ----
(***************************************************************************)
(* Model of the Google Drive MCP server's request/response pipeline:       *)
(* GoogleDriveClientImpl (client.ts), the tool handlers (tools/*.ts) and   *)
(* formatResponse / formatError (utils/formatters.ts).                     *)
(*                                                                         *)
(* A slot is one GoogleDriveClientImpl together with the invocation that   *)
(* is currently running on it.  An invocation is suspended exactly once,   *)
(* at the `await fetch(...)` of request(); Invoke models the code up to    *)
(* that await, Receive the code from the response to the return of the     *)
(* client operation and of the tool handler that called it.                *)
(***************************************************************************)
EXTENDS Integers, Sequences, FiniteSets, TLC

\* ------------------------------------------------------------------------
\* Bounds of the model
\* ------------------------------------------------------------------------
\* number of client instances (inbound requests) alive at the same time
MaxClients == 2
\* longest Retry-After header value, in characters
MaxHdrLen == 3

Slots == 1..MaxClients

\* ------------------------------------------------------------------------
\* JavaScript values
\* ------------------------------------------------------------------------
\* A JavaScript / JSON value is a record tagged by t.  The characters of a
\* string are a sequence of pieces: a piece is a run of unreserved characters
\* (letters, digits, - _ .), one single other character, or the line break
\* "\r\n", so that the empty string is <<>> and percent-encoding and JSON
\* escaping work piece by piece.  "text" is the
\* raw text of a response body, carried as the body it is the text of.
Undef == [t |-> "undefined"]
Null == [t |-> "null"]
Str(s) == [t |-> "string", s |-> s]
Lit(piece) == Str(<<piece>>)
EmptyStr == Str(<<>>)
Bool(b) == [t |-> "boolean", b |-> b]
NumV(n) == [t |-> "number", n |-> n]
Arr(items) == [t |-> "array", items |-> items]
Obj(f) == [t |-> "object", f |-> f]
RawText(body) == [t |-> "text", of |-> body]
\* text that is not JSON: JSON.parse throws SyntaxError on it
NotJson(s) == [t |-> "invalid", s |-> s]

\* ToBoolean: the test of `if (x)`, `x || y`, `!!x`
Truthy(v) ==
  CASE v.t = "undefined" -> FALSE
    [] v.t = "null" -> FALSE
    [] v.t = "string" -> v.s # <<>>
    [] v.t = "boolean" -> v.b
    [] v.t = "number" -> v.n # 0
    [] v.t = "text" -> ~(v.of.t = "invalid" /\ v.of.s = "")
    [] OTHER -> TRUE

\* v.k : property read.  Reading a property of undefined or null throws
\* TypeError (PropThrows); on any other value a missing property is undefined.
PropThrows(v) == v.t \in {"undefined", "null"}
Prop(v, k) == IF v.t = "object" /\ k \in DOMAIN v.f THEN v.f[k] ELSE Undef
\* v?.k
OptProp(v, k) == IF PropThrows(v) THEN Undef ELSE Prop(v, k)
\* a || b
Or(a, b) == IF Truthy(a) THEN a ELSE b

\* JSON.parse(text) throws SyntaxError on text that is not JSON; otherwise
\* the body is its own parsed value
ParseThrows(body) == body.t = "invalid"

\* the characters of a string value as one TLA+ string
RECURSIVE Join(_)
Join(pieces) == IF pieces = <<>> THEN "" ELSE Head(pieces) \o Join(Tail(pieces))

\* String(x) for the values that are interpolated into URLs
ToStr(v) ==
  CASE v.t = "string" -> Join(v.s)
    [] v.t = "number" -> ToString(v.n)
    [] v.t = "boolean" -> IF v.b THEN "true" ELSE "false"
    [] v.t = "undefined" -> "undefined"
    [] v.t = "null" -> "null"

\* ------------------------------------------------------------------------
\* Number.parseInt(s, 10) on a string given as a sequence of characters
\* ------------------------------------------------------------------------
Num(n) == [nan |-> FALSE, n |-> n]

RECURSIVE SkipWhiteSpace(_)
SkipWhiteSpace(s) ==
  IF s # <<>> /\ Head(s) = " " THEN SkipWhiteSpace(Tail(s)) ELSE s

\* the longest prefix of s made of decimal digits
RECURSIVE DigitPrefix(_)
DigitPrefix(s) ==
  IF s # <<>> /\ Head(s) \in {"0", "1", "2", "3", "4", "5", "6", "7", "8", "9"}
  THEN <<Head(s)>> \o DigitPrefix(Tail(s))
  ELSE <<>>

RECURSIVE DecimalValue(_, _)
DecimalValue(ds, acc) ==
  IF ds = <<>> THEN acc
  ELSE DecimalValue(Tail(ds),
                    10 * acc + (CASE Head(ds) = "0" -> 0 [] Head(ds) = "1" -> 1
                                  [] Head(ds) = "2" -> 2 [] Head(ds) = "3" -> 3
                                  [] Head(ds) = "4" -> 4 [] Head(ds) = "5" -> 5
                                  [] Head(ds) = "6" -> 6 [] Head(ds) = "7" -> 7
                                  [] Head(ds) = "8" -> 8 [] Head(ds) = "9" -> 9))

parseInt(s) ==
  LET t == SkipWhiteSpace(s)
      neg == t # <<>> /\ Head(t) = "-"
      u == IF t # <<>> /\ Head(t) \in {"-", "+"} THEN Tail(t) ELSE t
      ds == DigitPrefix(u)
  IN IF ds = <<>> THEN [nan |-> TRUE, n |-> 0]
     ELSE Num(IF neg THEN 0 - DecimalValue(ds, 0) ELSE DecimalValue(ds, 0))

\* ------------------------------------------------------------------------
\* Headers of a response
\* ------------------------------------------------------------------------
\* headers.get(name) is null when the header is absent
NoHeader == [present |-> FALSE, chars |-> <<>>]

\* contentType?.includes('application/json')
IncludesApplicationJson(ct) ==
  ct \in {"application/json", "application/json; charset=UTF-8"}

\* ------------------------------------------------------------------------
\* Configuration (client.ts)
\* ------------------------------------------------------------------------
API_BASE_URL == "https://www.googleapis.com/drive/v3"
UPLOAD_BASE_URL == "https://www.googleapis.com/upload/drive/v3"

\* DEFAULT_FILE_FIELDS, as pieces
DEFAULT_FILE_FIELDS ==
  <<"id", ",", "name", ",", "mimeType", ",", "description", ",", "starred", ",",
    "trashed", ",", "parents", ",", "size", ",", "createdTime", ",",
    "modifiedTime", ",", "webViewLink", ",", "webContentLink", ",", "iconLink", ",",
    "thumbnailLink", ",", "shared", ",", "ownedByMe", ",", "owners", ",",
    "capabilities">>

\* ------------------------------------------------------------------------
\* GoogleDriveClientImpl: constructor, getAuthHeaders, request
\* ------------------------------------------------------------------------
\* new GoogleDriveClientImpl(credentials)
\* the constructor where the credentials' base URL replaces both roots
NewClient_OverrideBoth(credentials) ==
  [credentials |-> credentials,
   baseUrl |-> IF Truthy(credentials.baseUrl) THEN Join(credentials.baseUrl.s)
               ELSE API_BASE_URL,
   uploadUrl |-> IF Truthy(credentials.baseUrl) THEN Join(credentials.baseUrl.s)
                 ELSE UPLOAD_BASE_URL]

NewClient(credentials) ==
  [credentials |-> credentials,
   baseUrl |-> IF Truthy(credentials.baseUrl) THEN Join(credentials.baseUrl.s)
               ELSE API_BASE_URL,
   uploadUrl |-> UPLOAD_BASE_URL]

\* errors thrown by the pipeline, as the constructor calls that make them
AuthenticationError(message) == [kind |-> "AuthenticationError", message |-> Lit(message)]
RateLimitError(message, retryAfter) ==
  [kind |-> "RateLimitError", message |-> Lit(message), retryAfter |-> retryAfter]
ForbiddenError(message) == [kind |-> "ForbiddenError", message |-> message]
NotFoundError(resource, id) == [kind |-> "NotFoundError", resource |-> resource, id |-> id]
GoogleDriveApiError(message, status) ==
  [kind |-> "GoogleDriveApiError", message |-> message, status |-> status]
\* errors of the runtime: response.json() on a body that is not JSON, and a
\* property read on undefined
SyntaxError == [kind |-> "SyntaxError"]
TypeError == [kind |-> "TypeError"]

\* the result of a function: a thrown error or a returned value
Throw(err) == [k |-> "throw", err |-> err]
Return(v) == [k |-> "return", v |-> v]

\* getAuthHeaders() with the test `accessToken === undefined`: an empty token
\* passes
getAuthHeaders_UndefinedOnly(client) ==
  IF client.credentials.accessToken.t = "undefined"
  THEN Throw(AuthenticationError(
         "No credentials provided. Include X-Google-Access-Token header."))
  ELSE Return([Authorization |-> "Bearer " \o Join(client.credentials.accessToken.s),
               ContentType |-> "application/json"])

\* getAuthHeaders(): throws without an access token
getAuthHeaders(client) ==
  IF ~Truthy(client.credentials.accessToken)
  THEN Throw(AuthenticationError(
         "No credentials provided. Include X-Google-Access-Token header."))
  ELSE Return([Authorization |-> "Bearer " \o Join(client.credentials.accessToken.s),
               ContentType |-> "application/json"])

\* options of request(): method ("" when not given), headers (the headers
\* the operation overrides: Content-Type, or none when contentType is "")
\* and body
NoBody == [t |-> "none"]
JsonBody(v) == [t |-> "json", v |-> v]
Options(method, contentType, body) ==
  [method |-> method,
   headers |-> IF contentType = "" THEN <<>> ELSE [ContentType |-> contentType],
   body |-> body]
NoOptions == Options("", "", NoBody)

\* request() whose fetch takes the headers of the options in place of the
\* authorization headers whenever the operation overrides a header
requestFetch_HeadersReplaced(client, endpoint, options, useUploadUrl) ==
  LET baseUrl == IF useUploadUrl THEN client.uploadUrl ELSE client.baseUrl
      url == baseUrl \o endpoint
      auth == getAuthHeaders(client)
  IN IF auth.k = "throw" THEN auth
     ELSE Return([url |-> url,
                  method |-> IF options.method = "" THEN "GET" ELSE options.method,
                  headers |-> IF DOMAIN options.headers # {} THEN options.headers
                              ELSE auth.v,
                  body |-> options.body])

\* request(), up to `await fetch(url, {...})`: the argument of fetch is
\* evaluated first, so a throw of getAuthHeaders() happens before the call.
\* Returns the thrown error or the request that fetch sends, whose headers
\* are { ...this.getAuthHeaders(), ...(options.headers || {}) }.
requestFetch(client, endpoint, options, useUploadUrl) ==
  LET baseUrl == IF useUploadUrl THEN client.uploadUrl ELSE client.baseUrl
      url == baseUrl \o endpoint
      auth == getAuthHeaders(client)
  IN IF auth.k = "throw" THEN auth
     ELSE Return([url |-> url,
                  method |-> IF options.method = "" THEN "GET" ELSE options.method,
                  headers |-> options.headers @@ auth.v,
                  body |-> options.body])

\* response.ok
Ok(status) == status >= 200 /\ status <= 299

\* the message of a 403 read from errorJson.message
ForbiddenMessage_TopLevel(body) ==
  LET default == Lit("Access denied")
  IN IF ParseThrows(body) \/ PropThrows(body) THEN default
     ELSE Or(Prop(body, "message"), default)

\* message of a 403: errorJson.error?.message || 'Access denied', the default
\* when JSON.parse or the property read throws
ForbiddenMessage(body) ==
  LET default == Lit("Access denied")
  IN IF ParseThrows(body) \/ PropThrows(body) THEN default
     ELSE Or(OptProp(Prop(body, "error"), "message"), default)

\* the fallback chain with errorJson.message tried first
ApiErrorMessage_MessageFirst(body, status) ==
  LET default == Lit("API error: " \o ToString(status))
  IN IF ParseThrows(body) \/ PropThrows(body) THEN default
     ELSE Or(Prop(body, "message"), Or(OptProp(Prop(body, "error"), "message"), default))

\* message of another error status:
\* errorJson.error?.message || errorJson.message || `API error: ${status}`
ApiErrorMessage(body, status) ==
  LET default == Lit("API error: " \o ToString(status))
  IN IF ParseThrows(body) \/ PropThrows(body) THEN default
     ELSE Or(OptProp(Prop(body, "error"), "message"), Or(Prop(body, "message"), default))

\* retryAfter ? Number.parseInt(retryAfter, 10) : 60
RetryAfterSeconds(retryAfter) ==
  IF retryAfter.present /\ retryAfter.chars # <<>>
  THEN parseInt(retryAfter.chars)
  ELSE Num(60)

\* request() without the 401 rule: a 401 falls through to the generic error
requestHandle_No401(endpoint, response) ==
  IF response.status = 429
  THEN Throw(RateLimitError("Rate limit exceeded", RetryAfterSeconds(response.retryAfter)))
  ELSE IF response.status = 403
  THEN Throw(ForbiddenError(ForbiddenMessage(response.body)))
  ELSE IF response.status = 404
  THEN Throw(NotFoundError("Resource", endpoint))
  ELSE IF ~Ok(response.status)
  THEN Throw(GoogleDriveApiError(ApiErrorMessage(response.body, response.status),
                                 response.status))
  ELSE IF response.status = 204
  THEN Return(Undef)
  ELSE IF IncludesApplicationJson(response.contentType)
  THEN (IF ParseThrows(response.body) THEN Throw(SyntaxError) ELSE Return(response.body))
  ELSE Return(RawText(response.body))

\* request() without the 204 rule: a 204 is read like any other 2xx
requestHandle_No204(endpoint, response) ==
  IF response.status = 429
  THEN Throw(RateLimitError("Rate limit exceeded", RetryAfterSeconds(response.retryAfter)))
  ELSE IF response.status = 401
  THEN Throw(AuthenticationError("Authentication failed. Check your OAuth access token."))
  ELSE IF response.status = 403
  THEN Throw(ForbiddenError(ForbiddenMessage(response.body)))
  ELSE IF response.status = 404
  THEN Throw(NotFoundError("Resource", endpoint))
  ELSE IF ~Ok(response.status)
  THEN Throw(GoogleDriveApiError(ApiErrorMessage(response.body, response.status),
                                 response.status))
  ELSE IF IncludesApplicationJson(response.contentType)
  THEN (IF ParseThrows(response.body) THEN Throw(SyntaxError) ELSE Return(response.body))
  ELSE Return(RawText(response.body))

\* request(), from the response on: the thrown error or the returned payload
requestHandle(endpoint, response) ==
  IF response.status = 429
  THEN Throw(RateLimitError("Rate limit exceeded", RetryAfterSeconds(response.retryAfter)))
  ELSE IF response.status = 401
  THEN Throw(AuthenticationError("Authentication failed. Check your OAuth access token."))
  ELSE IF response.status = 403
  THEN Throw(ForbiddenError(ForbiddenMessage(response.body)))
  ELSE IF response.status = 404
  THEN Throw(NotFoundError("Resource", endpoint))
  ELSE IF ~Ok(response.status)
  THEN Throw(GoogleDriveApiError(ApiErrorMessage(response.body, response.status),
                                 response.status))
  ELSE IF response.status = 204
  THEN Return(Undef)
  ELSE IF IncludesApplicationJson(response.contentType)
  THEN (IF ParseThrows(response.body) THEN Throw(SyntaxError) ELSE Return(response.body))
  ELSE Return(RawText(response.body))

\* ------------------------------------------------------------------------
\* URL construction
\* ------------------------------------------------------------------------
\* URLSearchParams serialisation of one piece (application/x-www-form-
\* urlencoded): unreserved runs and * stay, a space becomes +, the other
\* single characters are percent-encoded
FormEncodePiece(p) ==
  CASE p = " " -> "+"
    [] p = "," -> "%2C"
    [] p = "(" -> "%28"
    [] p = ")" -> "%29"
    [] p = "'" -> "%27"
    [] p = "=" -> "%3D"
    [] p = "/" -> "%2F"
    [] p = "&" -> "%26"
    [] OTHER -> p

\* encodeURIComponent of one piece: ( ) ' * stay, a space becomes %20
UriEncodePiece(p) ==
  CASE p = " " -> "%20"
    [] p = "," -> "%2C"
    [] p = "=" -> "%3D"
    [] p = "/" -> "%2F"
    [] p = "&" -> "%26"
    [] OTHER -> p

RECURSIVE FormEncode(_)
FormEncode(pieces) ==
  IF pieces = <<>> THEN "" ELSE FormEncodePiece(Head(pieces)) \o FormEncode(Tail(pieces))

RECURSIVE encodeURIComponent(_)
encodeURIComponent(pieces) ==
  IF pieces = <<>> THEN ""
  ELSE UriEncodePiece(Head(pieces)) \o encodeURIComponent(Tail(pieces))

\* queryParams.set(k, v), as the one-element list of parameters it adds
Param(k, v) == <<[k |-> k, v |-> v]>>
\* if (cond) queryParams.set(...)
When(cond, params) == IF cond THEN params ELSE <<>>

\* queryParams.toString()
RECURSIVE QueryString(_)
QueryString(params) ==
  IF params = <<>> THEN ""
  ELSE Head(params).k \o "=" \o FormEncode(Head(params).v)
       \o (IF Tail(params) = <<>> THEN "" ELSE "&" \o QueryString(Tail(params)))

\* String(x), as pieces
StringOf(v) == <<ToStr(v)>>

\* JSON.stringify(obj) of an object literal: the properties whose value is
\* undefined are left out
Stringify(f) == Obj([k \in {x \in DOMAIN f : f[x].t # "undefined"} |-> f[k]])

\* a call of request(): endpoint, options, useUploadUrl
Call(endpoint, options, useUploadUrl) ==
  [endpoint |-> endpoint, options |-> options, useUploadUrl |-> useUploadUrl]

\* ------------------------------------------------------------------------
\* Client operations: the call of request() each one makes.  The argument a
\* holds the parameters of the operation as JavaScript values (Undef for a
\* parameter that is not supplied).
\* ------------------------------------------------------------------------
\* parameter with a default value: the default applies to undefined only
Default(v, d) == IF v.t = "undefined" THEN d ELSE v

getAbout(a) ==
  Call("/about?fields=" \o encodeURIComponent(Default(a.fields, Lit("*")).s),
       NoOptions, FALSE)

\* listFiles() where a shared drive also selects the corpus
listFiles_DriveCorpora(a) ==
  LET queryParams ==
        When(Truthy(a.q), Param("q", a.q.s))
        \o When(Truthy(a.pageSize), Param("pageSize", StringOf(a.pageSize)))
        \o When(Truthy(a.pageToken), Param("pageToken", a.pageToken.s))
        \o Param("fields", <<"nextPageToken", ",", "files", "(">>
                           \o Or(a.fields, Str(DEFAULT_FILE_FIELDS)).s \o <<")">>)
        \o When(Truthy(a.orderBy), Param("orderBy", a.orderBy.s))
        \o When(Truthy(a.spaces), Param("spaces", a.spaces.s))
        \o When(Truthy(a.corpora) /\ ~Truthy(a.driveId), Param("corpora", a.corpora.s))
        \o When(Truthy(a.driveId),
                Param("driveId", a.driveId.s) \o Param("corpora", <<"drive">>))
        \o When(Truthy(a.includeItemsFromAllDrives),
                Param("includeItemsFromAllDrives", StringOf(a.includeItemsFromAllDrives)))
        \o When(Truthy(a.supportsAllDrives),
                Param("supportsAllDrives", StringOf(a.supportsAllDrives)))
  IN Call("/files?" \o QueryString(queryParams), NoOptions, FALSE)

listFiles(a) ==
  LET queryParams ==
        When(Truthy(a.q), Param("q", a.q.s))
        \o When(Truthy(a.pageSize), Param("pageSize", StringOf(a.pageSize)))
        \o When(Truthy(a.pageToken), Param("pageToken", a.pageToken.s))
        \o Param("fields", <<"nextPageToken", ",", "files", "(">>
                           \o Or(a.fields, Str(DEFAULT_FILE_FIELDS)).s \o <<")">>)
        \o When(Truthy(a.orderBy), Param("orderBy", a.orderBy.s))
        \o When(Truthy(a.spaces), Param("spaces", a.spaces.s))
        \o When(Truthy(a.corpora), Param("corpora", a.corpora.s))
        \o When(Truthy(a.driveId), Param("driveId", a.driveId.s))
        \o When(Truthy(a.includeItemsFromAllDrives),
                Param("includeItemsFromAllDrives", StringOf(a.includeItemsFromAllDrives)))
        \o When(Truthy(a.supportsAllDrives),
                Param("supportsAllDrives", StringOf(a.supportsAllDrives)))
  IN Call("/files?" \o QueryString(queryParams), NoOptions, FALSE)

\* getFile() that requests the default fields whatever the caller supplies
getFile_DefaultOnly(a) ==
  LET queryParams ==
        Param("fields", DEFAULT_FILE_FIELDS)
        \o Param("supportsAllDrives", <<"true">>)
  IN Call("/files/" \o ToStr(a.fileId) \o "?" \o QueryString(queryParams), NoOptions, FALSE)

getFile(a) ==
  LET queryParams ==
        Param("fields", Or(a.fields, Str(DEFAULT_FILE_FIELDS)).s)
        \o Param("supportsAllDrives", <<"true">>)
  IN Call("/files/" \o ToStr(a.fileId) \o "?" \o QueryString(queryParams), NoOptions, FALSE)

\* JSON.stringify: the characters of a string between its quotes, with the
\* quote, the backslash and the line break escaped
RECURSIVE JsonString(_)
JsonString(pieces) ==
  IF pieces = <<>> THEN ""
  ELSE (CASE Head(pieces) = "\"" -> "\\\""
          [] Head(pieces) = "\\" -> "\\\\"
          [] Head(pieces) = "\r\n" -> "\\r\\n"
          [] OTHER -> Head(pieces))
       \o JsonString(Tail(pieces))

\* texts joined by commas
RECURSIVE CommaJoin(_)
CommaJoin(texts) ==
  IF texts = <<>> THEN ""
  ELSE Head(texts) \o (IF Tail(texts) = <<>> THEN "" ELSE "," \o CommaJoin(Tail(texts)))

\* JSON.stringify(v): the properties of an object in the order keys (the
\* order the code sets them in), those whose value is undefined left out
RECURSIVE JsonText(_, _)
JsonText(keys, v) ==
  CASE v.t = "string" -> "\"" \o JsonString(v.s) \o "\""
    [] v.t = "array" ->
         "[" \o CommaJoin([j \in 1..Len(v.items) |-> JsonText(keys, v.items[j])]) \o "]"
    [] v.t = "object" ->
         LET present == SelectSeq(keys, LAMBDA k : k \in DOMAIN v.f /\ v.f[k].t # "undefined")
         IN "{" \o CommaJoin([j \in 1..Len(present) |->
                                "\"" \o present[j] \o "\":"
                                  \o JsonText(keys, v.f[present[j]])])
            \o "}"
    [] OTHER -> ToStr(v)

\* the multipart body of an upload: the JSON metadata part and the content
\* part with its Content-Type, between the delimiters of the fixed boundary
boundary == "-------314159265358979323846"
MultipartContentType == "multipart/related; boundary=\"" \o boundary \o "\""
MultipartBody(metadata, mimeType, content) ==
  LET delimiter == "\r\n--" \o boundary \o "\r\n"
      closeDelim == "\r\n--" \o boundary \o "--"
  IN [t |-> "multipart",
      text |-> delimiter
               \o "Content-Type: application/json; charset=UTF-8\r\n\r\n"
               \o metadata
               \o delimiter
               \o "Content-Type: " \o ToStr(Or(mimeType, Lit("text/plain"))) \o "\r\n\r\n"
               \o ToStr(content)
               \o closeDelim]

\* createFile() with the test `content !== undefined`: an empty text is
\* uploaded as content
createFile_DefinedContent(a) ==
  LET metadata ==
        Stringify([name |-> a.name,
                   mimeType |-> IF Truthy(a.mimeType) THEN a.mimeType ELSE Undef,
                   parents |-> IF Truthy(a.parents) THEN a.parents ELSE Undef,
                   description |-> IF Truthy(a.description) THEN a.description ELSE Undef])
  IN IF a.content.t # "undefined"
     THEN Call("/files?uploadType=multipart&fields=" \o Join(DEFAULT_FILE_FIELDS),
               Options("POST", MultipartContentType,
                       MultipartBody(JsonText(<<"name", "mimeType", "parents",
                                                "description">>, metadata),
                                     a.mimeType, a.content)),
               TRUE)
     ELSE Call("/files?fields=" \o Join(DEFAULT_FILE_FIELDS),
               Options("POST", "", JsonBody(metadata)), FALSE)

createFile(a) ==
  LET metadata ==
        Stringify([name |-> a.name,
                   mimeType |-> IF Truthy(a.mimeType) THEN a.mimeType ELSE Undef,
                   parents |-> IF Truthy(a.parents) THEN a.parents ELSE Undef,
                   description |-> IF Truthy(a.description) THEN a.description ELSE Undef])
  IN IF Truthy(a.content)
     THEN Call("/files?uploadType=multipart&fields=" \o Join(DEFAULT_FILE_FIELDS),
               Options("POST", MultipartContentType,
                       MultipartBody(JsonText(<<"name", "mimeType", "parents",
                                                "description">>, metadata),
                                     a.mimeType, a.content)),
               TRUE)
     ELSE Call("/files?fields=" \o Join(DEFAULT_FILE_FIELDS),
               Options("POST", "", JsonBody(metadata)), FALSE)

\* updateFile() that sends the multipart body without useUploadUrl
updateFile_MetadataRoot(a) ==
  LET queryParams ==
        Param("fields", DEFAULT_FILE_FIELDS)
        \o Param("supportsAllDrives", <<"true">>)
        \o When(Truthy(a.addParents), Param("addParents", a.addParents.s))
        \o When(Truthy(a.removeParents), Param("removeParents", a.removeParents.s))
      metadata ==
        Stringify([name |-> a.name, description |-> a.description,
                   mimeType |-> a.mimeType, starred |-> a.starred,
                   trashed |-> a.trashed])
  IN IF Truthy(a.content)
     THEN Call("/files/" \o ToStr(a.fileId) \o "?uploadType=multipart&"
                 \o QueryString(queryParams),
               Options("PATCH", MultipartContentType,
                       MultipartBody(JsonText(<<"name", "description", "mimeType",
                                                "starred", "trashed">>, metadata),
                                     a.mimeType, a.content)),
               FALSE)
     ELSE Call("/files/" \o ToStr(a.fileId) \o "?" \o QueryString(queryParams),
               Options("PATCH", "", JsonBody(metadata)), FALSE)

updateFile(a) ==
  LET queryParams ==
        Param("fields", DEFAULT_FILE_FIELDS)
        \o Param("supportsAllDrives", <<"true">>)
        \o When(Truthy(a.addParents), Param("addParents", a.addParents.s))
        \o When(Truthy(a.removeParents), Param("removeParents", a.removeParents.s))
      metadata ==
        Stringify([name |-> a.name, description |-> a.description,
                   mimeType |-> a.mimeType, starred |-> a.starred,
                   trashed |-> a.trashed])
  IN IF Truthy(a.content)
     THEN Call("/files/" \o ToStr(a.fileId) \o "?uploadType=multipart&"
                 \o QueryString(queryParams),
               Options("PATCH", MultipartContentType,
                       MultipartBody(JsonText(<<"name", "description", "mimeType",
                                                "starred", "trashed">>, metadata),
                                     a.mimeType, a.content)),
               TRUE)
     ELSE Call("/files/" \o ToStr(a.fileId) \o "?" \o QueryString(queryParams),
               Options("PATCH", "", JsonBody(metadata)), FALSE)

copyFile(a) ==
  LET queryParams ==
        Param("fields", DEFAULT_FILE_FIELDS) \o Param("supportsAllDrives", <<"true">>)
  IN Call("/files/" \o ToStr(a.fileId) \o "/copy?" \o QueryString(queryParams),
          Options("POST", "",
                  JsonBody(Stringify([name |-> a.name, parents |-> a.parents,
                                      description |-> a.description]))),
          FALSE)

deleteFile(a) ==
  Call("/files/" \o ToStr(a.fileId) \o "?supportsAllDrives=true",
       Options("DELETE", "", NoBody), FALSE)

emptyTrash(a) == Call("/files/trash", Options("DELETE", "", NoBody), FALSE)

exportFile(a) ==
  Call("/files/" \o ToStr(a.fileId) \o "/export?mimeType="
         \o encodeURIComponent(a.mimeType.s),
       NoOptions, FALSE)

downloadFile(a) ==
  Call("/files/" \o ToStr(a.fileId) \o "?alt=media&supportsAllDrives=true",
       NoOptions, FALSE)

generateIds(a) ==
  Call("/files/generateIds?count=" \o ToStr(Default(a.count, NumV(10)))
         \o "&space=" \o ToStr(Default(a.space, Lit("drive"))),
       NoOptions, FALSE)

listLabels(a) == Call("/files/" \o ToStr(a.fileId) \o "/listLabels", NoOptions, FALSE)

modifyLabels(a) ==
  Call("/files/" \o ToStr(a.fileId) \o "/modifyLabels",
       Options("POST", "",
               JsonBody(Stringify([labelModifications |-> a.labelModifications]))),
       FALSE)

watchFile(a) ==
  Call("/files/" \o ToStr(a.fileId) \o "/watch?supportsAllDrives=true",
       Options("POST", "", JsonBody(a.channel)), FALSE)

\* the arguments of an operation when no parameter is supplied
ArgNames ==
  {"fileId", "commentId", "replyId", "permissionId", "revisionId", "driveId",
   "proposalId", "appId", "channelId", "resourceId", "operationName", "requestId",
   "fields", "q", "pageSize", "pageToken", "orderBy", "spaces", "corpora",
   "includeItemsFromAllDrives", "supportsAllDrives", "name", "mimeType", "parents",
   "description", "content", "addParents", "removeParents", "starred", "trashed",
   "count", "space", "labelModifications", "channel", "role", "type",
   "emailAddress", "domain", "allowFileDiscovery", "sendNotificationEmail",
   "emailMessage", "transferOwnership", "moveToNewOwnersRoot", "expirationTime",
   "includeDeleted", "startModifiedTime", "anchor", "quotedFileContent", "action",
   "keepForever", "publishAuto", "published", "publishedOutsideDomain",
   "useDomainAdminAccess", "themeId", "colorRgb", "restrictions", "includeRemoved",
   "restrictToMyDrive", "appFilterExtensions", "appFilterMimeTypes", "languageCode",
   "view", "sendNotification",
   \* parameters of tools that no client operation has
   "query", "includeSharedDrives", "parentId", "folderId", "newParentId",
   "removeFromCurrentParent", "email", "webhookUrl", "token",
   "adminManagedRestrictions", "copyRequiresWriterPermission", "domainUsersOnly",
   "driveMembersOnly", "sharingFoldersRequiresOrganizerPermission",
   \* a parameter a caller may send that no tool declares
   "format"}
NoArgs == [n \in ArgNames |-> Undef]
\* the arguments f (a record), every other parameter not supplied
Args(f) == [n \in ArgNames |-> IF n \in DOMAIN f THEN f[n] ELSE Undef]

createFolder(a) ==
  createFile(Args([name |-> a.name,
                   mimeType |-> Lit("application/vnd.google-apps.folder"),
                   parents |-> a.parents]))

listFolderContents(a) ==
  listFiles(Args([q |-> Str(<<"'", ToStr(a.fileId), "'", " ", "in", " ", "parents", " ",
                              "and", " ", "trashed", " ", "=", " ", "false">>),
                  pageSize |-> a.pageSize,
                  pageToken |-> a.pageToken,
                  orderBy |-> a.orderBy]))

listPermissions(a) ==
  LET queryParams ==
        When(Truthy(a.pageSize), Param("pageSize", StringOf(a.pageSize)))
        \o When(Truthy(a.pageToken), Param("pageToken", a.pageToken.s))
        \o Param("supportsAllDrives",
                 StringOf(IF a.supportsAllDrives.t \in {"undefined", "null"}
                          THEN Bool(TRUE) ELSE a.supportsAllDrives))
        \o Param("fields", <<"nextPageToken", ",", "permissions", "(", "*", ")">>)
  IN Call("/files/" \o ToStr(a.fileId) \o "/permissions?" \o QueryString(queryParams),
          NoOptions, FALSE)

getPermission(a) ==
  Call("/files/" \o ToStr(a.fileId) \o "/permissions/" \o ToStr(a.permissionId)
         \o "?supportsAllDrives=true&fields=*",
       NoOptions, FALSE)

createPermission(a) ==
  LET queryParams ==
        Param("supportsAllDrives", <<"true">>)
        \o Param("fields", <<"*">>)
        \o When(a.sendNotificationEmail.t # "undefined",
                Param("sendNotificationEmail", StringOf(a.sendNotificationEmail)))
        \o When(Truthy(a.emailMessage), Param("emailMessage", a.emailMessage.s))
        \o When(Truthy(a.transferOwnership), Param("transferOwnership", <<"true">>))
        \o When(Truthy(a.moveToNewOwnersRoot), Param("moveToNewOwnersRoot", <<"true">>))
      body ==
        Stringify([role |-> a.role, type |-> a.type,
                   emailAddress |-> IF Truthy(a.emailAddress) THEN a.emailAddress ELSE Undef,
                   domain |-> IF Truthy(a.domain) THEN a.domain ELSE Undef,
                   allowFileDiscovery |-> a.allowFileDiscovery])
  IN Call("/files/" \o ToStr(a.fileId) \o "/permissions?" \o QueryString(queryParams),
          Options("POST", "", JsonBody(body)), FALSE)

updatePermission(a) ==
  Call("/files/" \o ToStr(a.fileId) \o "/permissions/" \o ToStr(a.permissionId)
         \o "?supportsAllDrives=true&fields=*",
       Options("PATCH", "",
               JsonBody(Stringify([role |-> a.role, expirationTime |-> a.expirationTime]))),
       FALSE)

deletePermission(a) ==
  Call("/files/" \o ToStr(a.fileId) \o "/permissions/" \o ToStr(a.permissionId)
         \o "?supportsAllDrives=true",
       Options("DELETE", "", NoBody), FALSE)

listComments(a) ==
  LET queryParams ==
        When(Truthy(a.pageSize), Param("pageSize", StringOf(a.pageSize)))
        \o When(Truthy(a.pageToken), Param("pageToken", a.pageToken.s))
        \o When(Truthy(a.includeDeleted), Param("includeDeleted", <<"true">>))
        \o When(Truthy(a.startModifiedTime),
                Param("startModifiedTime", a.startModifiedTime.s))
        \o Param("fields", <<"nextPageToken", ",", "comments", "(", "*", ")">>)
  IN Call("/files/" \o ToStr(a.fileId) \o "/comments?" \o QueryString(queryParams),
          NoOptions, FALSE)

getComment(a) ==
  LET queryParams ==
        Param("fields", <<"*">>)
        \o When(Truthy(Default(a.includeDeleted, Bool(FALSE))),
                Param("includeDeleted", <<"true">>))
  IN Call("/files/" \o ToStr(a.fileId) \o "/comments/" \o ToStr(a.commentId) \o "?"
            \o QueryString(queryParams),
          NoOptions, FALSE)

createComment(a) ==
  Call("/files/" \o ToStr(a.fileId) \o "/comments?fields=*",
       Options("POST", "",
               JsonBody(Stringify([content |-> a.content, anchor |-> a.anchor,
                                   quotedFileContent |-> a.quotedFileContent]))),
       FALSE)

updateComment(a) ==
  Call("/files/" \o ToStr(a.fileId) \o "/comments/" \o ToStr(a.commentId) \o "?fields=*",
       Options("PATCH", "", JsonBody(Stringify([content |-> a.content]))), FALSE)

deleteComment(a) ==
  Call("/files/" \o ToStr(a.fileId) \o "/comments/" \o ToStr(a.commentId),
       Options("DELETE", "", NoBody), FALSE)

listReplies(a) ==
  LET queryParams ==
        When(Truthy(a.pageSize), Param("pageSize", StringOf(a.pageSize)))
        \o When(Truthy(a.pageToken), Param("pageToken", a.pageToken.s))
        \o When(Truthy(a.includeDeleted), Param("includeDeleted", <<"true">>))
        \o Param("fields", <<"nextPageToken", ",", "replies", "(", "*", ")">>)
  IN Call("/files/" \o ToStr(a.fileId) \o "/comments/" \o ToStr(a.commentId)
            \o "/replies?" \o QueryString(queryParams),
          NoOptions, FALSE)

getReply(a) ==
  LET queryParams ==
        Param("fields", <<"*">>)
        \o When(Truthy(Default(a.includeDeleted, Bool(FALSE))),
                Param("includeDeleted", <<"true">>))
  IN Call("/files/" \o ToStr(a.fileId) \o "/comments/" \o ToStr(a.commentId)
            \o "/replies/" \o ToStr(a.replyId) \o "?" \o QueryString(queryParams),
          NoOptions, FALSE)

createReply(a) ==
  Call("/files/" \o ToStr(a.fileId) \o "/comments/" \o ToStr(a.commentId)
         \o "/replies?fields=*",
       Options("POST", "",
               JsonBody(Stringify([content |-> a.content, action |-> a.action]))),
       FALSE)

updateReply(a) ==
  Call("/files/" \o ToStr(a.fileId) \o "/comments/" \o ToStr(a.commentId)
         \o "/replies/" \o ToStr(a.replyId) \o "?fields=*",
       Options("PATCH", "", JsonBody(Stringify([content |-> a.content]))), FALSE)

deleteReply(a) ==
  Call("/files/" \o ToStr(a.fileId) \o "/comments/" \o ToStr(a.commentId)
         \o "/replies/" \o ToStr(a.replyId),
       Options("DELETE", "", NoBody), FALSE)

listRevisions(a) ==
  LET queryParams ==
        When(Truthy(a.pageSize), Param("pageSize", StringOf(a.pageSize)))
        \o When(Truthy(a.pageToken), Param("pageToken", a.pageToken.s))
        \o Param("fields", <<"nextPageToken", ",", "revisions", "(", "*", ")">>)
  IN Call("/files/" \o ToStr(a.fileId) \o "/revisions?" \o QueryString(queryParams),
          NoOptions, FALSE)

getRevision(a) ==
  Call("/files/" \o ToStr(a.fileId) \o "/revisions/" \o ToStr(a.revisionId) \o "?fields=*",
       NoOptions, FALSE)

updateRevision(a) ==
  Call("/files/" \o ToStr(a.fileId) \o "/revisions/" \o ToStr(a.revisionId) \o "?fields=*",
       Options("PATCH", "",
               JsonBody(Stringify([keepForever |-> a.keepForever,
                                   publishAuto |-> a.publishAuto,
                                   published |-> a.published,
                                   publishedOutsideDomain |-> a.publishedOutsideDomain]))),
       FALSE)

deleteRevision(a) ==
  Call("/files/" \o ToStr(a.fileId) \o "/revisions/" \o ToStr(a.revisionId),
       Options("DELETE", "", NoBody), FALSE)

listDrives(a) ==
  LET queryParams ==
        When(Truthy(a.pageSize), Param("pageSize", StringOf(a.pageSize)))
        \o When(Truthy(a.pageToken), Param("pageToken", a.pageToken.s))
        \o When(Truthy(a.q), Param("q", a.q.s))
        \o When(Truthy(a.useDomainAdminAccess), Param("useDomainAdminAccess", <<"true">>))
        \o Param("fields", <<"nextPageToken", ",", "drives", "(", "*", ")">>)
  IN Call("/drives?" \o QueryString(queryParams), NoOptions, FALSE)

getDrive(a) ==
  LET queryParams ==
        Param("fields", <<"*">>)
        \o When(Truthy(Default(a.useDomainAdminAccess, Bool(FALSE))),
                Param("useDomainAdminAccess", <<"true">>))
  IN Call("/drives/" \o ToStr(a.driveId) \o "?" \o QueryString(queryParams),
          NoOptions, FALSE)

createDrive(a) ==
  Call("/drives?requestId=" \o encodeURIComponent(a.requestId.s) \o "&fields=*",
       Options("POST", "",
               JsonBody(Stringify([name |-> a.name, themeId |-> a.themeId]))),
       FALSE)

updateDrive(a) ==
  Call("/drives/" \o ToStr(a.driveId) \o "?fields=*",
       Options("PATCH", "",
               JsonBody(Stringify([name |-> a.name, colorRgb |-> a.colorRgb,
                                   themeId |-> a.themeId,
                                   restrictions |-> a.restrictions]))),
       FALSE)

deleteDrive(a) ==
  Call("/drives/" \o ToStr(a.driveId), Options("DELETE", "", NoBody), FALSE)

hideDrive(a) ==
  Call("/drives/" \o ToStr(a.driveId) \o "/hide?fields=*",
       Options("POST", "", NoBody), FALSE)

unhideDrive(a) ==
  Call("/drives/" \o ToStr(a.driveId) \o "/unhide?fields=*",
       Options("POST", "", NoBody), FALSE)

getStartPageToken(a) ==
  LET queryParams ==
        When(Truthy(a.driveId), Param("driveId", a.driveId.s))
        \o When(Truthy(a.supportsAllDrives), Param("supportsAllDrives", <<"true">>))
  IN Call("/changes/startPageToken?" \o QueryString(queryParams), NoOptions, FALSE)

listChanges(a) ==
  LET queryParams ==
        Param("pageToken", a.pageToken.s)
        \o When(Truthy(a.driveId), Param("driveId", a.driveId.s))
        \o When(Truthy(a.pageSize), Param("pageSize", StringOf(a.pageSize)))
        \o When(Truthy(a.spaces), Param("spaces", a.spaces.s))
        \o When(Truthy(a.includeItemsFromAllDrives),
                Param("includeItemsFromAllDrives", StringOf(a.includeItemsFromAllDrives)))
        \o When(Truthy(a.supportsAllDrives),
                Param("supportsAllDrives", StringOf(a.supportsAllDrives)))
        \o When(a.includeRemoved.t # "undefined",
                Param("includeRemoved", StringOf(a.includeRemoved)))
        \o When(Truthy(a.restrictToMyDrive),
                Param("restrictToMyDrive", StringOf(a.restrictToMyDrive)))
        \o Param("fields", <<"nextPageToken", ",", "newStartPageToken", ",",
                             "changes", "(", "*", ")">>)
  IN Call("/changes?" \o QueryString(queryParams), NoOptions, FALSE)

watchChanges(a) ==
  LET queryParams ==
        Param("pageToken", a.pageToken.s)
        \o When(Truthy(a.driveId), Param("driveId", a.driveId.s))
        \o When(Truthy(a.includeItemsFromAllDrives),
                Param("includeItemsFromAllDrives", StringOf(a.includeItemsFromAllDrives)))
        \o When(Truthy(a.supportsAllDrives),
                Param("supportsAllDrives", StringOf(a.supportsAllDrives)))
  IN Call("/changes/watch?" \o QueryString(queryParams),
          Options("POST", "", JsonBody(a.channel)), FALSE)

stopChannel(a) ==
  Call("/channels/stop",
       Options("POST", "",
               JsonBody(Stringify([id |-> a.channelId, resourceId |-> a.resourceId]))),
       FALSE)

listApps(a) ==
  LET queryParams ==
        When(Truthy(a.appFilterExtensions),
             Param("appFilterExtensions", a.appFilterExtensions.s))
        \o When(Truthy(a.appFilterMimeTypes),
                Param("appFilterMimeTypes", a.appFilterMimeTypes.s))
        \o When(Truthy(a.languageCode), Param("languageCode", a.languageCode.s))
        \o Param("fields", <<"items", "(", "*", ")">>)
  IN Call("/apps?" \o QueryString(queryParams), NoOptions, FALSE)

getApp(a) == Call("/apps/" \o ToStr(a.appId) \o "?fields=*", NoOptions, FALSE)

listAccessProposals(a) ==
  LET queryParams ==
        When(Truthy(a.pageSize), Param("pageSize", StringOf(a.pageSize)))
        \o When(Truthy(a.pageToken), Param("pageToken", a.pageToken.s))
  IN Call("/files/" \o ToStr(a.fileId) \o "/accessproposals?" \o QueryString(queryParams),
          NoOptions, FALSE)

getAccessProposal(a) ==
  Call("/files/" \o ToStr(a.fileId) \o "/accessproposals/" \o ToStr(a.proposalId),
       NoOptions, FALSE)

resolveAccessProposal(a) ==
  LET queryParams ==
        Param("action", a.action.s)
        \o When(Truthy(a.role), Param("role", a.role.s))
        \o When(Truthy(a.view), Param("view", a.view.s))
        \o When(a.sendNotification.t # "undefined",
                Param("sendNotification", StringOf(a.sendNotification)))
  IN Call("/files/" \o ToStr(a.fileId) \o "/accessproposals/" \o ToStr(a.proposalId)
            \o ":resolve?" \o QueryString(queryParams),
          Options("POST", "", NoBody), FALSE)

getOperation(a) == Call("/operations/" \o ToStr(a.operationName), NoOptions, FALSE)

\* testConnection() calls getAbout('user')
testConnection(a) == getAbout(Args([fields |-> Lit("user")]))

\* ------------------------------------------------------------------------
\* The operations of the GoogleDriveClient interface
\* ------------------------------------------------------------------------
ListOps ==
  {"listFiles", "listFolderContents", "listPermissions", "listComments",
   "listReplies", "listRevisions", "listDrives", "listAccessProposals"}
\* operations that await request() and return nothing
VoidOps ==
  {"deleteFile", "emptyTrash", "deletePermission", "deleteComment", "deleteReply",
   "deleteRevision", "deleteDrive", "stopChannel", "resolveAccessProposal"}
\* the operations of the client: the listings, the operations that return
\* nothing, those that return what request() returns, and the others
ClientOps ==
  ListOps \cup VoidOps
  \cup {"getAbout", "getFile", "createFile", "updateFile", "copyFile", "exportFile",
   "downloadFile", "listLabels", "modifyLabels", "watchFile", "createFolder",
   "getPermission", "createPermission", "updatePermission", "getComment",
   "createComment", "updateComment", "getReply", "createReply", "updateReply",
   "getRevision", "updateRevision", "getDrive", "createDrive", "updateDrive",
   "hideDrive", "unhideDrive", "listChanges", "watchChanges", "getApp",
   "getAccessProposal", "getOperation"}
  \cup {"testConnection", "generateIds", "getStartPageToken", "listApps"}

\* the call of request() that operation op makes with arguments a
OpCall(op, a) ==
  CASE op = "testConnection" -> testConnection(a)
    [] op = "getAbout" -> getAbout(a)
    [] op = "listFiles" -> listFiles(a)
    [] op = "getFile" -> getFile(a)
    [] op = "createFile" -> createFile(a)
    [] op = "updateFile" -> updateFile(a)
    [] op = "copyFile" -> copyFile(a)
    [] op = "deleteFile" -> deleteFile(a)
    [] op = "emptyTrash" -> emptyTrash(a)
    [] op = "exportFile" -> exportFile(a)
    [] op = "downloadFile" -> downloadFile(a)
    [] op = "generateIds" -> generateIds(a)
    [] op = "listLabels" -> listLabels(a)
    [] op = "modifyLabels" -> modifyLabels(a)
    [] op = "watchFile" -> watchFile(a)
    [] op = "createFolder" -> createFolder(a)
    [] op = "listFolderContents" -> listFolderContents(a)
    [] op = "listPermissions" -> listPermissions(a)
    [] op = "getPermission" -> getPermission(a)
    [] op = "createPermission" -> createPermission(a)
    [] op = "updatePermission" -> updatePermission(a)
    [] op = "deletePermission" -> deletePermission(a)
    [] op = "listComments" -> listComments(a)
    [] op = "getComment" -> getComment(a)
    [] op = "createComment" -> createComment(a)
    [] op = "updateComment" -> updateComment(a)
    [] op = "deleteComment" -> deleteComment(a)
    [] op = "listReplies" -> listReplies(a)
    [] op = "getReply" -> getReply(a)
    [] op = "createReply" -> createReply(a)
    [] op = "updateReply" -> updateReply(a)
    [] op = "deleteReply" -> deleteReply(a)
    [] op = "listRevisions" -> listRevisions(a)
    [] op = "getRevision" -> getRevision(a)
    [] op = "updateRevision" -> updateRevision(a)
    [] op = "deleteRevision" -> deleteRevision(a)
    [] op = "listDrives" -> listDrives(a)
    [] op = "getDrive" -> getDrive(a)
    [] op = "createDrive" -> createDrive(a)
    [] op = "updateDrive" -> updateDrive(a)
    [] op = "deleteDrive" -> deleteDrive(a)
    [] op = "hideDrive" -> hideDrive(a)
    [] op = "unhideDrive" -> unhideDrive(a)
    [] op = "getStartPageToken" -> getStartPageToken(a)
    [] op = "listChanges" -> listChanges(a)
    [] op = "watchChanges" -> watchChanges(a)
    [] op = "stopChannel" -> stopChannel(a)
    [] op = "listApps" -> listApps(a)
    [] op = "getApp" -> getApp(a)
    [] op = "listAccessProposals" -> listAccessProposals(a)
    [] op = "getAccessProposal" -> getAccessProposal(a)
    [] op = "resolveAccessProposal" -> resolveAccessProposal(a)
    [] op = "getOperation" -> getOperation(a)

\* ------------------------------------------------------------------------
\* Client operations: what each one does with the result of request()
\* ------------------------------------------------------------------------
\* the property of the response that holds the resource array of a listing
ListKey(op) ==
  CASE op \in {"listFiles", "listFolderContents"} -> "files"
    [] op = "listPermissions" -> "permissions"
    [] op = "listComments" -> "comments"
    [] op = "listReplies" -> "replies"
    [] op = "listRevisions" -> "revisions"
    [] op = "listDrives" -> "drives"
    [] op = "listAccessProposals" -> "accessProposals"

\* the page with hasMore: response.nextPageToken !== undefined
PaginatedResponse_DefinedToken(response, key) ==
  Obj([items |-> Or(Prop(response, key), Arr(<<>>)),
       hasMore |-> Bool(Prop(response, "nextPageToken").t # "undefined"),
       nextPageToken |-> Prop(response, "nextPageToken")])

\* { items: response.<key> || [], hasMore: !!response.nextPageToken,
\*   nextPageToken: response.nextPageToken }
PaginatedResponse(response, key) ==
  Obj([items |-> Or(Prop(response, key), Arr(<<>>)),
       hasMore |-> Bool(Truthy(Prop(response, "nextPageToken"))),
       nextPageToken |-> Prop(response, "nextPageToken")])

\* error.message of a caught error
MessageOf(err) == [t |-> "message", of |-> err]

\* testConnection(): the try block on the value of getAbout('user'), and the
\* catch block on an error
ConnectedResult(about) ==
  Obj([connected |-> Bool(TRUE),
       message |-> [t |-> "connectedAs",
                    who |-> Or(OptProp(Prop(about, "user"), "displayName"),
                               Or(OptProp(Prop(about, "user"), "emailAddress"),
                                  Lit("unknown user")))]])
NotConnectedResult(err) ==
  Obj([connected |-> Bool(FALSE), message |-> MessageOf(err)])

\* OpResult with a listChanges that reports one cursor: the next page token,
\* or the new start page token when there is no next page
OpResult_OneCursor(op, r) ==
  IF op = "testConnection"
  THEN (IF r.k = "throw" THEN Return(NotConnectedResult(r.err))
        ELSE IF PropThrows(r.v) THEN Return(NotConnectedResult(TypeError))
        ELSE Return(ConnectedResult(r.v)))
  ELSE IF r.k = "throw" THEN r
  ELSE IF op \in ListOps
  THEN (IF PropThrows(r.v) THEN Throw(TypeError)
        ELSE Return(PaginatedResponse(r.v, ListKey(op))))
  ELSE IF op \in VoidOps THEN Return(Undef)
  ELSE IF op = "generateIds"
  THEN (IF PropThrows(r.v) THEN Throw(TypeError) ELSE Return(Prop(r.v, "ids")))
  ELSE IF op = "getStartPageToken"
  THEN (IF PropThrows(r.v) THEN Throw(TypeError) ELSE Return(Prop(r.v, "startPageToken")))
  ELSE IF op = "listApps"
  THEN (IF PropThrows(r.v) THEN Throw(TypeError)
        ELSE Return(Or(Prop(r.v, "items"), Arr(<<>>))))
  ELSE IF op = "listChanges"
  THEN (IF PropThrows(r.v) THEN Throw(TypeError)
        ELSE Return(Stringify(
               [changes |-> Prop(r.v, "changes"),
                nextPageToken |-> Or(Prop(r.v, "nextPageToken"),
                                     Prop(r.v, "newStartPageToken"))])))
  ELSE r

\* the result of client operation op, given the result r of its request()
OpResult(op, r) ==
  IF op = "testConnection"
  THEN (IF r.k = "throw" THEN Return(NotConnectedResult(r.err))
        ELSE IF PropThrows(r.v) THEN Return(NotConnectedResult(TypeError))
        ELSE Return(ConnectedResult(r.v)))
  ELSE IF r.k = "throw" THEN r
  ELSE IF op \in ListOps
  THEN (IF PropThrows(r.v) THEN Throw(TypeError)
        ELSE Return(PaginatedResponse(r.v, ListKey(op))))
  ELSE IF op \in VoidOps THEN Return(Undef)
  ELSE IF op = "generateIds"
  THEN (IF PropThrows(r.v) THEN Throw(TypeError) ELSE Return(Prop(r.v, "ids")))
  ELSE IF op = "getStartPageToken"
  THEN (IF PropThrows(r.v) THEN Throw(TypeError) ELSE Return(Prop(r.v, "startPageToken")))
  ELSE IF op = "listApps"
  THEN (IF PropThrows(r.v) THEN Throw(TypeError)
        ELSE Return(Or(Prop(r.v, "items"), Arr(<<>>))))
  ELSE r

\* ------------------------------------------------------------------------
\* Tool handlers (tools/*.ts, index.ts)
\* ------------------------------------------------------------------------
\* utils/errors.ts: error.retryable of a GoogleDriveApiError, set for
\* throttling only
retryable(error) == error.kind = "RateLimitError"

\* formatError that never marks an error retryable
formatError_Unmarked(error) ==
  [isError |-> TRUE, error |-> error,
   text |-> [prefix |-> "Error: ", message |-> MessageOf(error), suffix |-> ""]]

\* a tool response: formatError(error) sets isError, a success does not.
\* The error property of its text is `Error: ${error.message}`, followed by
\* ' (retryable)' for a GoogleDriveApiError that is retryable
formatError(error) ==
  [isError |-> TRUE, error |-> error,
   text |-> [prefix |-> "Error: ", message |-> MessageOf(error),
             suffix |-> IF /\ error.kind \in {"GoogleDriveApiError", "AuthenticationError",
                                                "ForbiddenError", "NotFoundError",
                                                "RateLimitError"}
                           /\ retryable(error)
                        THEN " (retryable)" ELSE ""]]
ToolSuccess(data) == [isError |-> FALSE, data |-> data]
SuccessMessage(message) ==
  ToolSuccess(Obj([success |-> Bool(TRUE), message |-> Lit(message)]))

\* JSON.stringify({ success: true, message, <key>: v }) as the tool's text
SuccessWith(message, key, v) ==
  ToolSuccess(Stringify(("success" :> Bool(TRUE)) @@ ("message" :> Lit(message))
                        @@ (key :> v)))

\* formatResponse(data, format, entityType)
formatResponse(data, format, entityType) ==
  IF format = "markdown"
  THEN ToolSuccess([t |-> "markdown", of |-> data, entityType |-> entityType])
  ELSE ToolSuccess(data)

\* A registered tool, given its parsed arguments a: the client operation its
\* handler awaits (op) with the arguments it passes (args), and what the try
\* block returns (ret) when the operation returned v.  A register function
\* gives the operation "" to a name it does not register.
Handler(op, args, ret) == [op |-> op, args |-> Args(args), ret |-> ret]

registerAboutTools(tool, a, v) ==
  CASE tool = "googledrive_get_about" ->
         Handler("getAbout", [fields |-> Or(a.fields, Lit("*"))],
                 formatResponse(v, "json", "about"))
    [] tool = "googledrive_get_storage_quota" ->
         Handler("getAbout", [fields |-> Lit("storageQuota")],
                 IF PropThrows(v) THEN formatError(TypeError)
                 ELSE ToolSuccess(Stringify(
                        [storageQuota |-> [t |-> "formatted", of |-> Prop(v, "storageQuota")],
                         raw |-> Prop(v, "storageQuota")])))
    [] tool = "googledrive_get_user_info" ->
         Handler("getAbout", [fields |-> Lit("user")],
                 IF PropThrows(v) THEN formatError(TypeError)
                 ELSE formatResponse(Prop(v, "user"), "json", "user"))
    [] tool = "googledrive_get_export_formats" ->
         Handler("getAbout", [fields |-> Lit("exportFormats")],
                 IF PropThrows(v) THEN formatError(TypeError)
                 ELSE ToolSuccess(Stringify(
                        [exportFormats |-> Prop(v, "exportFormats"),
                         description |-> Lit("Map of Google Workspace MIME types to available export formats")])))
    [] tool = "googledrive_get_import_formats" ->
         Handler("getAbout", [fields |-> Lit("importFormats")],
                 IF PropThrows(v) THEN formatError(TypeError)
                 ELSE ToolSuccess(Stringify(
                        [importFormats |-> Prop(v, "importFormats"),
                         description |-> Lit("Map of MIME types to Google Workspace formats they can be converted to")])))
    [] OTHER -> [op |-> ""]

registerFileTools(tool, a, v) ==
  CASE tool = "googledrive_list_files" ->
         Handler("listFiles",
                 [q |-> a.query, pageSize |-> Default(a.pageSize, NumV(100)),
                  pageToken |-> a.pageToken, orderBy |-> a.orderBy, spaces |-> a.spaces,
                  includeItemsFromAllDrives |-> Default(a.includeSharedDrives, Bool(TRUE)),
                  supportsAllDrives |-> Default(a.includeSharedDrives, Bool(TRUE))],
                 formatResponse(v, "json", "files"))
    [] tool = "googledrive_get_file" ->
         Handler("getFile", [fileId |-> a.fileId, fields |-> a.fields],
                 formatResponse(v, "json", "file"))
    [] tool = "googledrive_create_file" ->
         Handler("createFile",
                 [name |-> a.name, mimeType |-> a.mimeType, parents |-> IF Truthy(a.parentId) THEN Arr(<<a.parentId>>) ELSE Undef,
                  description |-> a.description, content |-> a.content],
                 SuccessWith("File created", "file", v))
    [] tool = "googledrive_update_file" ->
         Handler("updateFile",
                 [fileId |-> a.fileId, name |-> a.name, description |-> a.description,
                  content |-> a.content, addParents |-> a.addParents,
                  removeParents |-> a.removeParents, starred |-> a.starred,
                  trashed |-> a.trashed],
                 SuccessWith("File updated", "file", v))
    [] tool = "googledrive_copy_file" ->
         Handler("copyFile",
                 [fileId |-> a.fileId, name |-> a.name, parents |-> IF Truthy(a.parentId) THEN Arr(<<a.parentId>>) ELSE Undef,
                  description |-> a.description],
                 SuccessWith("File copied", "file", v))
    [] tool = "googledrive_delete_file" ->
         Handler("deleteFile", [fileId |-> a.fileId],
                 SuccessMessage("File " \o ToStr(a.fileId) \o " deleted"))
    [] tool = "googledrive_empty_trash" ->
         Handler("emptyTrash", <<>>, SuccessMessage("Trash emptied"))
    [] tool = "googledrive_export_file" ->
         Handler("exportFile", [fileId |-> a.fileId, mimeType |-> a.mimeType],
                 ToolSuccess(v))
    [] tool = "googledrive_download_file" ->
         Handler("downloadFile", [fileId |-> a.fileId], ToolSuccess(v))
    [] tool = "googledrive_generate_ids" ->
         Handler("generateIds",
                 [count |-> Default(a.count, NumV(10)),
                  space |-> Default(a.space, Lit("drive"))],
                 ToolSuccess(Stringify([ids |-> v])))
    [] tool = "googledrive_search_files" ->
         Handler("listFiles",
                 [q |-> a.query, pageSize |-> Default(a.pageSize, NumV(100)),
                  pageToken |-> a.pageToken, includeItemsFromAllDrives |-> Bool(TRUE),
                  supportsAllDrives |-> Bool(TRUE)],
                 formatResponse(v, "json", "files"))
    [] OTHER -> [op |-> ""]

\* items.join(','), for an array of strings
RECURSIVE JoinPieces(_)
JoinPieces(items) ==
  IF items = <<>> THEN <<>>
  ELSE IF Len(items) = 1 THEN items[1].s
  ELSE items[1].s \o <<",">> \o JoinPieces(Tail(items))

\* googledrive_move_file that removes the file from its first parent only
moveFileUpdate_FirstParent(a, currentFile) ==
  IF PropThrows(currentFile) THEN Throw(TypeError)
  ELSE IF Prop(currentFile, "parents").t \notin {"undefined", "null", "array"}
  THEN Throw(TypeError)
  ELSE Return(Args([fileId |-> a.fileId, addParents |-> a.newParentId,
                    removeParents |->
                      IF Truthy(Default(a.removeFromCurrentParent, Bool(TRUE)))
                      THEN (IF PropThrows(Prop(currentFile, "parents")) THEN Undef
                            ELSE IF Prop(currentFile, "parents").items = <<>> THEN Undef
                            ELSE Prop(currentFile, "parents").items[1])
                      ELSE Undef]))

\* googledrive_move_file once getFile returned currentFile: the arguments of
\* the updateFile that follows, or the TypeError of reading parents of
\* nothing or of joining what is not an array
moveFileUpdate(a, currentFile) ==
  IF PropThrows(currentFile) THEN Throw(TypeError)
  ELSE IF Prop(currentFile, "parents").t \notin {"undefined", "null", "array"}
  THEN Throw(TypeError)
  ELSE Return(Args([fileId |-> a.fileId, addParents |-> a.newParentId,
                    removeParents |->
                      IF Truthy(Default(a.removeFromCurrentParent, Bool(TRUE)))
                      THEN (IF PropThrows(Prop(currentFile, "parents")) THEN Undef
                            ELSE Str(JoinPieces(Prop(currentFile, "parents").items)))
                      ELSE Undef]))

\* googledrive_move_file that updates the file without reading it first
registerFolderTools_UpdateFirst(tool, a, v) ==
  CASE tool = "googledrive_create_folder" ->
         Handler("createFolder", [name |-> a.name, parents |-> IF Truthy(a.parentId) THEN Arr(<<a.parentId>>) ELSE Undef],
                 SuccessWith("Folder created", "folder", v))
    [] tool = "googledrive_list_folder" ->
         Handler("listFolderContents",
                 [fileId |-> a.folderId, pageSize |-> Default(a.pageSize, NumV(100)),
                  pageToken |-> a.pageToken, orderBy |-> a.orderBy],
                 formatResponse(v, "json", "files"))
    [] tool = "googledrive_move_file" ->
         Handler("updateFile", [fileId |-> a.fileId, addParents |-> a.newParentId],
                 SuccessWith("File moved", "file", v))
    [] OTHER -> [op |-> ""]

\* googledrive_move_file has two awaits: op is the first, and ret is the
\* return once the second returned v
registerFolderTools(tool, a, v) ==
  CASE tool = "googledrive_create_folder" ->
         Handler("createFolder", [name |-> a.name, parents |-> IF Truthy(a.parentId) THEN Arr(<<a.parentId>>) ELSE Undef],
                 SuccessWith("Folder created", "folder", v))
    [] tool = "googledrive_list_folder" ->
         Handler("listFolderContents",
                 [fileId |-> a.folderId, pageSize |-> Default(a.pageSize, NumV(100)),
                  pageToken |-> a.pageToken, orderBy |-> a.orderBy],
                 formatResponse(v, "json", "files"))
    [] tool = "googledrive_move_file" ->
         Handler("getFile", [fileId |-> a.fileId],
                 SuccessWith("File moved", "file", v))
    [] OTHER -> [op |-> ""]

registerPermissionTools(tool, a, v) ==
  CASE tool = "googledrive_list_permissions" ->
         Handler("listPermissions",
                 [fileId |-> a.fileId, pageSize |-> Default(a.pageSize, NumV(100)),
                  pageToken |-> a.pageToken],
                 formatResponse(v, "json", "permissions"))
    [] tool = "googledrive_get_permission" ->
         Handler("getPermission", [fileId |-> a.fileId, permissionId |-> a.permissionId],
                 formatResponse(v, "json", "permission"))
    [] tool = "googledrive_share_with_user" ->
         Handler("createPermission",
                 [fileId |-> a.fileId, type |-> Lit("user"), role |-> a.role,
                  emailAddress |-> a.email,
                  sendNotificationEmail |-> Default(a.sendNotification, Bool(TRUE)),
                  emailMessage |-> a.emailMessage,
                  transferOwnership |-> a.transferOwnership],
                 SuccessWith("Shared with " \o ToStr(a.email), "permission", v))
    [] tool = "googledrive_share_with_group" ->
         Handler("createPermission",
                 [fileId |-> a.fileId, type |-> Lit("group"), role |-> a.role,
                  emailAddress |-> a.email,
                  sendNotificationEmail |-> Default(a.sendNotification, Bool(TRUE))],
                 SuccessWith("Shared with group " \o ToStr(a.email), "permission", v))
    [] tool = "googledrive_share_with_domain" ->
         Handler("createPermission",
                 [fileId |-> a.fileId, type |-> Lit("domain"), role |-> a.role,
                  domain |-> a.domain,
                  allowFileDiscovery |-> Default(a.allowFileDiscovery, Bool(FALSE))],
                 SuccessWith("Shared with domain " \o ToStr(a.domain), "permission", v))
    [] tool = "googledrive_make_public" ->
         Handler("createPermission",
                 [fileId |-> a.fileId, type |-> Lit("anyone"),
                  role |-> Default(a.role, Lit("reader")),
                  allowFileDiscovery |-> Default(a.allowFileDiscovery, Bool(FALSE))],
                 SuccessWith("File is now publicly accessible", "permission", v))
    [] tool = "googledrive_update_permission" ->
         Handler("updatePermission",
                 [fileId |-> a.fileId, permissionId |-> a.permissionId, role |-> a.role,
                  expirationTime |-> a.expirationTime],
                 SuccessWith("Permission updated", "permission", v))
    [] tool = "googledrive_remove_permission" ->
         Handler("deletePermission", [fileId |-> a.fileId, permissionId |-> a.permissionId],
                 SuccessMessage("Permission removed"))
    [] OTHER -> [op |-> ""]

registerCommentTools(tool, a, v) ==
  CASE tool = "googledrive_list_comments" ->
         Handler("listComments",
                 [fileId |-> a.fileId, pageSize |-> Default(a.pageSize, NumV(100)),
                  pageToken |-> a.pageToken,
                  includeDeleted |-> Default(a.includeDeleted, Bool(FALSE)),
                  startModifiedTime |-> a.startModifiedTime],
                 formatResponse(v, "json", "comments"))
    [] tool = "googledrive_get_comment" ->
         Handler("getComment",
                 [fileId |-> a.fileId, commentId |-> a.commentId,
                  includeDeleted |-> Default(a.includeDeleted, Bool(FALSE))],
                 formatResponse(v, "json", "comment"))
    [] tool = "googledrive_create_comment" ->
         Handler("createComment",
                 [fileId |-> a.fileId, content |-> a.content, anchor |-> a.anchor],
                 SuccessWith("Comment created", "comment", v))
    [] tool = "googledrive_update_comment" ->
         Handler("updateComment",
                 [fileId |-> a.fileId, commentId |-> a.commentId, content |-> a.content],
                 SuccessWith("Comment updated", "comment", v))
    [] tool = "googledrive_delete_comment" ->
         Handler("deleteComment", [fileId |-> a.fileId, commentId |-> a.commentId],
                 SuccessMessage("Comment deleted"))
    [] tool = "googledrive_list_replies" ->
         Handler("listReplies",
                 [fileId |-> a.fileId, commentId |-> a.commentId,
                  pageSize |-> Default(a.pageSize, NumV(100)), pageToken |-> a.pageToken,
                  includeDeleted |-> Default(a.includeDeleted, Bool(FALSE))],
                 formatResponse(v, "json", "replies"))
    [] tool = "googledrive_get_reply" ->
         Handler("getReply",
                 [fileId |-> a.fileId, commentId |-> a.commentId, replyId |-> a.replyId,
                  includeDeleted |-> Default(a.includeDeleted, Bool(FALSE))],
                 formatResponse(v, "json", "reply"))
    [] tool = "googledrive_create_reply" ->
         Handler("createReply",
                 [fileId |-> a.fileId, commentId |-> a.commentId, content |-> a.content,
                  action |-> a.action],
                 SuccessWith("Reply created", "reply", v))
    [] tool = "googledrive_update_reply" ->
         Handler("updateReply",
                 [fileId |-> a.fileId, commentId |-> a.commentId, replyId |-> a.replyId,
                  content |-> a.content],
                 SuccessWith("Reply updated", "reply", v))
    [] tool = "googledrive_delete_reply" ->
         Handler("deleteReply",
                 [fileId |-> a.fileId, commentId |-> a.commentId, replyId |-> a.replyId],
                 SuccessMessage("Reply deleted"))
    [] tool = "googledrive_resolve_comment" ->
         Handler("createReply",
                 [fileId |-> a.fileId, commentId |-> a.commentId,
                  content |-> Default(a.content, Lit("Resolved")),
                  action |-> Lit("resolve")],
                 SuccessWith("Comment resolved", "reply", v))
    [] tool = "googledrive_reopen_comment" ->
         Handler("createReply",
                 [fileId |-> a.fileId, commentId |-> a.commentId,
                  content |-> Default(a.content, Lit("Reopened")),
                  action |-> Lit("reopen")],
                 SuccessWith("Comment reopened", "reply", v))
    [] OTHER -> [op |-> ""]

registerRevisionTools(tool, a, v) ==
  CASE tool = "googledrive_list_revisions" ->
         Handler("listRevisions",
                 [fileId |-> a.fileId, pageSize |-> Default(a.pageSize, NumV(100)),
                  pageToken |-> a.pageToken],
                 formatResponse(v, "json", "revisions"))
    [] tool = "googledrive_get_revision" ->
         Handler("getRevision", [fileId |-> a.fileId, revisionId |-> a.revisionId],
                 formatResponse(v, "json", "revision"))
    [] tool = "googledrive_update_revision" ->
         Handler("updateRevision",
                 [fileId |-> a.fileId, revisionId |-> a.revisionId,
                  keepForever |-> a.keepForever, published |-> a.published,
                  publishAuto |-> a.publishAuto,
                  publishedOutsideDomain |-> a.publishedOutsideDomain],
                 SuccessWith("Revision updated", "revision", v))
    [] tool = "googledrive_delete_revision" ->
         Handler("deleteRevision", [fileId |-> a.fileId, revisionId |-> a.revisionId],
                 SuccessMessage("Revision deleted"))
    [] tool = "googledrive_keep_revision" ->
         Handler("updateRevision",
                 [fileId |-> a.fileId, revisionId |-> a.revisionId,
                  keepForever |-> Bool(TRUE)],
                 SuccessWith("Revision marked to keep forever", "revision", v))
    [] OTHER -> [op |-> ""]

registerDriveTools(tool, a, v) ==
  CASE tool = "googledrive_list_drives" ->
         Handler("listDrives",
                 [pageSize |-> Default(a.pageSize, NumV(100)), pageToken |-> a.pageToken,
                  q |-> a.query],
                 formatResponse(v, "json", "drives"))
    [] tool = "googledrive_get_drive" ->
         Handler("getDrive", [driveId |-> a.driveId], formatResponse(v, "json", "drive"))
    [] tool = "googledrive_create_drive" ->
         Handler("createDrive",
                 [requestId |-> a.requestId, name |-> a.name, themeId |-> a.themeId],
                 SuccessWith("Shared drive created", "drive", v))
    [] tool = "googledrive_update_drive" ->
         Handler("updateDrive",
                 [driveId |-> a.driveId, name |-> a.name, colorRgb |-> a.colorRgb,
                  themeId |-> a.themeId],
                 SuccessWith("Shared drive updated", "drive", v))
    [] tool = "googledrive_delete_drive" ->
         Handler("deleteDrive", [driveId |-> a.driveId],
                 SuccessMessage("Shared drive deleted"))
    [] tool = "googledrive_hide_drive" ->
         Handler("hideDrive", [driveId |-> a.driveId],
                 SuccessWith("Shared drive hidden", "drive", v))
    [] tool = "googledrive_unhide_drive" ->
         Handler("unhideDrive", [driveId |-> a.driveId],
                 SuccessWith("Shared drive unhidden", "drive", v))
    [] tool = "googledrive_update_drive_restrictions" ->
         Handler("updateDrive",
                 [driveId |-> a.driveId,
                  restrictions |->
                    Obj([adminManagedRestrictions |-> a.adminManagedRestrictions,
                         copyRequiresWriterPermission |-> a.copyRequiresWriterPermission,
                         domainUsersOnly |-> a.domainUsersOnly,
                         driveMembersOnly |-> a.driveMembersOnly,
                         sharingFoldersRequiresOrganizerPermission |->
                           a.sharingFoldersRequiresOrganizerPermission])],
                 SuccessWith("Drive restrictions updated", "drive", v))
    [] OTHER -> [op |-> ""]

registerChangeTools(tool, a, v) ==
  CASE tool = "googledrive_get_changes_start_token" ->
         Handler("getStartPageToken",
                 [driveId |-> a.driveId, supportsAllDrives |-> Bool(TRUE)],
                 ToolSuccess(Stringify(
                   [startPageToken |-> v,
                    message |-> Lit("Use this token with googledrive_list_changes to track future changes")])))
    [] tool = "googledrive_list_changes" ->
         Handler("listChanges",
                 [pageToken |-> a.pageToken, pageSize |-> Default(a.pageSize, NumV(100)),
                  driveId |-> a.driveId,
                  includeRemoved |-> Default(a.includeRemoved, Bool(TRUE)),
                  restrictToMyDrive |-> Default(a.restrictToMyDrive, Bool(FALSE)),
                  includeItemsFromAllDrives |-> Bool(TRUE),
                  supportsAllDrives |-> Bool(TRUE)],
                 IF PropThrows(v) THEN formatError(TypeError)
                 ELSE ToolSuccess(Stringify(
                        [changes |-> Prop(v, "changes"),
                         newStartPageToken |-> Prop(v, "newStartPageToken"),
                         nextPageToken |-> Prop(v, "nextPageToken"),
                         hasMore |-> Bool(Truthy(Prop(v, "nextPageToken"))),
                         message |->
                           IF Truthy(Prop(v, "newStartPageToken"))
                           THEN Lit("No more changes. Save newStartPageToken for future polling.")
                           ELSE Lit("More changes available. Use nextPageToken to continue.")])))
    [] tool = "googledrive_watch_changes" ->
         Handler("watchChanges",
                 [pageToken |-> a.pageToken,
                  channel |-> Obj([id |-> a.channelId, type |-> Lit("web_hook"),
                                  address |-> a.webhookUrl, token |-> a.token,
                                  expiration |-> a.expirationTime]),
                  driveId |-> a.driveId,
                  includeItemsFromAllDrives |-> Bool(TRUE),
                  supportsAllDrives |-> Bool(TRUE)],
                 SuccessWith("Watch channel created", "channel", v))
    [] tool = "googledrive_watch_file" ->
         Handler("watchFile",
                 [fileId |-> a.fileId,
                  channel |-> Obj([id |-> a.channelId, type |-> Lit("web_hook"),
                                  address |-> a.webhookUrl, token |-> a.token,
                                  expiration |-> a.expirationTime])],
                 SuccessWith("File watch channel created", "channel", v))
    [] tool = "googledrive_stop_channel" ->
         Handler("stopChannel", [channelId |-> a.channelId, resourceId |-> a.resourceId],
                 SuccessMessage("Watch channel stopped"))
    [] OTHER -> [op |-> ""]

registerAppTools(tool, a, v) ==
  CASE tool = "googledrive_list_apps" ->
         Handler("listApps",
                 [appFilterExtensions |-> a.appFilterExtensions,
                  appFilterMimeTypes |-> a.appFilterMimeTypes,
                  languageCode |-> a.languageCode],
                 formatResponse(Obj([items |-> v, hasMore |-> Bool(FALSE)]), "json", "apps"))
    [] tool = "googledrive_get_app" ->
         Handler("getApp", [appId |-> a.appId], formatResponse(v, "json", "app"))
    [] OTHER -> [op |-> ""]

registerAccessProposalTools(tool, a, v) ==
  CASE tool = "googledrive_list_access_proposals" ->
         Handler("listAccessProposals",
                 [fileId |-> a.fileId, pageSize |-> Default(a.pageSize, NumV(100)),
                  pageToken |-> a.pageToken],
                 formatResponse(v, "json", "accessProposals"))
    [] tool = "googledrive_get_access_proposal" ->
         Handler("getAccessProposal", [fileId |-> a.fileId, proposalId |-> a.proposalId],
                 formatResponse(v, "json", "accessProposal"))
    [] tool = "googledrive_accept_access_proposal" ->
         Handler("resolveAccessProposal",
                 [fileId |-> a.fileId, proposalId |-> a.proposalId,
                  action |-> Lit("accept"), role |-> a.role, view |-> Undef,
                  sendNotification |-> Default(a.sendNotification, Bool(TRUE))],
                 SuccessMessage("Access proposal accepted"))
    [] tool = "googledrive_deny_access_proposal" ->
         Handler("resolveAccessProposal",
                 [fileId |-> a.fileId, proposalId |-> a.proposalId,
                  action |-> Lit("deny"), role |-> Undef, view |-> Undef,
                  sendNotification |-> Default(a.sendNotification, Bool(TRUE))],
                 SuccessMessage("Access proposal denied"))
    [] OTHER -> [op |-> ""]

\* createStatelessServer(): the tools the register functions put on the
\* server, and googledrive_test_connection
createStatelessServer(tool, a, v) ==
  IF tool = "googledrive_test_connection"
  THEN Handler("testConnection", <<>>, ToolSuccess(v))
  ELSE CHOOSE h \in
         {registerAboutTools(tool, a, v), registerAccessProposalTools(tool, a, v),
          registerAppTools(tool, a, v), registerChangeTools(tool, a, v),
          registerCommentTools(tool, a, v), registerDriveTools(tool, a, v),
          registerFileTools(tool, a, v), registerFolderTools(tool, a, v),
          registerPermissionTools(tool, a, v), registerRevisionTools(tool, a, v)} :
         h.op # ""

\* the client operation a tool handler calls first
ToolOp(tool) == createStatelessServer(tool, NoArgs, Undef).op

\* the client operation the handler of tool awaits after op returned v: none
\* (op ""), or the operation and its arguments, or the error thrown between
\* the two awaits
\* handlers that return after their first await
ToolNext_SingleAwait(tool, op, a, v) == [op |-> "", args |-> Return(NoArgs)]
ToolNext(tool, op, a, v) ==
  IF tool = "googledrive_move_file" /\ op = "getFile"
  THEN [op |-> "updateFile", args |-> moveFileUpdate(a, v)]
  ELSE [op |-> "", args |-> Return(NoArgs)]

\* the handler: try { ... await client.op(...) ... } catch { formatError };
\* the catch block of googledrive_test_connection returns
\* { text: `Connection failed: ${error.message}`, isError: true }
ToolResult(tool, a, r) ==
  IF r.k = "return" THEN createStatelessServer(tool, a, r.v).ret
  ELSE IF tool = "googledrive_test_connection"
  THEN [isError |-> TRUE, error |-> r.err,
        text |-> [prefix |-> "Connection failed: ", message |-> MessageOf(r.err),
                  suffix |-> ""]]
  ELSE formatError(r.err)

\* ------------------------------------------------------------------------
\* Inputs: credentials, arguments and responses the model draws from
\* ------------------------------------------------------------------------
FileIds == {Lit("f1"), Lit("f2")}
PageTokens == {Undef, Lit("pt1")}
Contents == {Undef, EmptyStr, Lit("hello")}
\* the fields specifier of a read: not supplied, empty, or a projection
FieldSpecs == {Undef, EmptyStr, Str(<<"id", ",", "name">>)}

Ids(f) ==
  [fileId |-> f, commentId |-> Lit("c1"), replyId |-> Lit("r1"),
   permissionId |-> Lit("p1"), revisionId |-> Lit("v1"), proposalId |-> Lit("ap1")]

\* the parameters operation op is invoked with (the supplied ones only)
OpArgsOf(op) ==
  CASE op \in {"testConnection", "emptyTrash"} -> {<<>>}
    [] op = "getAbout" -> {([fields |-> x]) : x \in FieldSpecs}
    [] op = "listFiles" ->
         {([pageToken |-> t, fields |-> x, q |-> y]) :
            t \in PageTokens, x \in FieldSpecs,
            y \in {Undef, Str(<<"name", " ", "=", " ", "'", "a&b", "'">>)}}
    [] op = "getFile" -> {([fileId |-> f, fields |-> x]) : f \in FileIds, x \in FieldSpecs}
    [] op = "listDrives" -> {([pageToken |-> t]) : t \in PageTokens}
    [] op \in ListOps \ {"listFiles", "listDrives"} ->
         {(Ids(f) @@ [pageToken |-> t]) : f \in FileIds, t \in PageTokens}
    [] op = "createFile" ->
         {([name |-> Lit("doc"), content |-> c]) : c \in Contents}
    [] op = "updateFile" ->
         {([fileId |-> f, name |-> Lit("doc"), content |-> c]) :
            f \in FileIds, c \in Contents}
    [] op = "createFolder" -> {([name |-> Lit("dir")])}
    [] op = "exportFile" ->
         {([fileId |-> f, mimeType |-> Str(<<"application", "/", "pdf">>)]) :
            f \in FileIds}
    [] op = "generateIds" -> {([count |-> c]) : c \in {Undef, NumV(2)}}
    [] op \in {"watchFile"} ->
         {([fileId |-> f, channel |-> Obj([id |-> Lit("ch1")])]) : f \in FileIds}
    [] op \in {"getDrive", "updateDrive", "deleteDrive", "hideDrive", "unhideDrive"} ->
         {([driveId |-> Lit("d1")])}
    [] op = "createDrive" -> {([requestId |-> Lit("req1"), name |-> Lit("team")])}
    [] op = "getStartPageToken" -> {<<>>}
    [] op = "listChanges" -> {([pageToken |-> Lit("pt1")])}
    [] op = "watchChanges" ->
         {([pageToken |-> Lit("pt1"), channel |-> Obj([id |-> Lit("ch1")])])}
    [] op = "stopChannel" ->
         {([channelId |-> Lit("ch1"), resourceId |-> Lit("res1")])}
    [] op = "listApps" -> {<<>>}
    [] op = "getApp" -> {([appId |-> Lit("app1")])}
    [] op = "getOperation" -> {([operationName |-> Lit("op1")])}
    [] op = "resolveAccessProposal" ->
         {(Ids(f) @@ [action |-> x]) : f \in FileIds, x \in {Lit("accept"), Lit("deny")}}
    [] op \in {"createPermission", "updatePermission"} ->
         {(Ids(f) @@ [role |-> Lit("reader"), type |-> Lit("anyone")]) : f \in FileIds}
    [] op \in {"createComment", "updateComment", "createReply", "updateReply"} ->
         {(Ids(f) @@ [content |-> Lit("hello")]) : f \in FileIds}
    [] OTHER -> {(Ids(f)) : f \in FileIds}

\* the parameters of the operations whose query string has conditional
\* parts: those the signature requires and those it marks optional (`?`) or
\* gives a default, each with a value a caller may pass
ParamsOf(op) ==
  LET Pick(names) ==
        [n \in names |->
           CASE n \in {"fileId", "commentId", "replyId", "permissionId", "proposalId",
                       "driveId", "pageToken", "q", "orderBy", "emailMessage",
                       "startModifiedTime", "languageCode", "appFilterExtensions",
                       "appFilterMimeTypes", "addParents", "removeParents"} ->
                  Lit(n \o "1")
             [] n \in {"pageSize", "count"} -> NumV(50)
             [] n = "fields" -> Str(<<"id", ",", "name">>)
             [] n = "spaces" -> Lit("appDataFolder")
             [] n = "space" -> Lit("appDataFolder")
             [] n = "corpora" -> Lit("allDrives")
             [] n = "role" -> Lit("reader")
             [] n = "type" -> Lit("anyone")
             [] n = "view" -> Lit("published")
             [] n = "action" -> Lit("accept")
             [] n = "channel" -> Obj([id |-> Lit("ch1")])
             [] OTHER -> Bool(TRUE)]
      Op(required, optional) == [required |-> Pick(required), optional |-> Pick(optional)]
  IN CASE op = "getAbout" -> Op({}, {"fields"})
       [] op = "listFiles" ->
            Op({}, {"q", "pageSize", "pageToken", "fields", "orderBy", "spaces", "corpora",
                    "driveId", "includeItemsFromAllDrives", "supportsAllDrives"})
       [] op = "getFile" -> Op({"fileId"}, {"fields"})
       [] op = "updateFile" -> Op({"fileId"}, {"addParents", "removeParents"})
       [] op = "generateIds" -> Op({}, {"count", "space"})
       [] op = "listPermissions" ->
            Op({"fileId"}, {"pageSize", "pageToken", "supportsAllDrives"})
       [] op = "createPermission" ->
            Op({"fileId", "role", "type"},
               {"sendNotificationEmail", "emailMessage", "transferOwnership",
                "moveToNewOwnersRoot"})
       [] op = "listComments" ->
            Op({"fileId"}, {"pageSize", "pageToken", "includeDeleted", "startModifiedTime"})
       [] op = "getComment" -> Op({"fileId", "commentId"}, {"includeDeleted"})
       [] op = "listReplies" ->
            Op({"fileId", "commentId"}, {"pageSize", "pageToken", "includeDeleted"})
       [] op = "getReply" -> Op({"fileId", "commentId", "replyId"}, {"includeDeleted"})
       [] op = "listRevisions" -> Op({"fileId"}, {"pageSize", "pageToken"})
       [] op = "listDrives" ->
            Op({}, {"pageSize", "pageToken", "q", "useDomainAdminAccess"})
       [] op = "getDrive" -> Op({"driveId"}, {"useDomainAdminAccess"})
       [] op = "getStartPageToken" -> Op({}, {"driveId", "supportsAllDrives"})
       [] op = "listChanges" ->
            Op({"pageToken"},
               {"driveId", "pageSize", "spaces", "includeItemsFromAllDrives",
                "supportsAllDrives", "includeRemoved", "restrictToMyDrive"})
       [] op = "watchChanges" ->
            Op({"pageToken", "channel"},
               {"driveId", "includeItemsFromAllDrives", "supportsAllDrives"})
       [] op = "listApps" ->
            Op({}, {"appFilterExtensions", "appFilterMimeTypes", "languageCode"})
       [] op = "listAccessProposals" -> Op({"fileId"}, {"pageSize", "pageToken"})
       [] op = "resolveAccessProposal" ->
            Op({"fileId", "proposalId", "action"}, {"role", "view", "sendNotification"})
       [] OTHER -> Op({}, {})

\* the tools createStatelessServer() puts on the server
Tools ==
  {"googledrive_test_connection", "googledrive_get_about",
   "googledrive_get_storage_quota", "googledrive_get_user_info",
   "googledrive_get_export_formats", "googledrive_get_import_formats",
   "googledrive_list_files", "googledrive_get_file", "googledrive_create_file",
   "googledrive_update_file", "googledrive_copy_file", "googledrive_delete_file",
   "googledrive_empty_trash", "googledrive_export_file", "googledrive_download_file",
   "googledrive_generate_ids", "googledrive_search_files",
   "googledrive_create_folder", "googledrive_list_folder", "googledrive_move_file",
   "googledrive_list_permissions", "googledrive_get_permission",
   "googledrive_share_with_user", "googledrive_share_with_group",
   "googledrive_share_with_domain", "googledrive_make_public",
   "googledrive_update_permission", "googledrive_remove_permission",
   "googledrive_list_comments", "googledrive_get_comment",
   "googledrive_create_comment", "googledrive_update_comment",
   "googledrive_delete_comment", "googledrive_resolve_comment",
   "googledrive_reopen_comment", "googledrive_list_replies",
   "googledrive_get_reply", "googledrive_create_reply", "googledrive_update_reply",
   "googledrive_delete_reply", "googledrive_list_revisions",
   "googledrive_get_revision", "googledrive_update_revision",
   "googledrive_delete_revision", "googledrive_keep_revision",
   "googledrive_list_drives", "googledrive_get_drive", "googledrive_create_drive",
   "googledrive_update_drive", "googledrive_delete_drive", "googledrive_hide_drive",
   "googledrive_unhide_drive", "googledrive_update_drive_restrictions",
   "googledrive_get_changes_start_token", "googledrive_list_changes",
   "googledrive_watch_changes", "googledrive_watch_file", "googledrive_stop_channel",
   "googledrive_list_apps", "googledrive_get_app",
   "googledrive_list_access_proposals", "googledrive_get_access_proposal",
   "googledrive_accept_access_proposal", "googledrive_deny_access_proposal"}

\* the parameters tool is invoked with (the supplied ones only)
ToolArgsOf(tool) ==
  CASE tool \in {"googledrive_empty_trash", "googledrive_test_connection",
                 "googledrive_get_storage_quota", "googledrive_get_user_info",
                 "googledrive_get_export_formats", "googledrive_get_import_formats",
                 "googledrive_list_apps"} -> {<<>>}
    [] tool = "googledrive_get_about" -> {([fields |-> x]) : x \in FieldSpecs}
    [] tool = "googledrive_list_files" ->
         {([query |-> Lit("trashed"), pageToken |-> t, format |-> x]) :
            t \in PageTokens, x \in {Undef, Lit("json"), Lit("markdown")}}
    [] tool = "googledrive_search_files" ->
         {([query |-> Lit("trashed"), pageToken |-> t]) : t \in PageTokens}
    [] tool = "googledrive_get_file" ->
         {([fileId |-> f, fields |-> x]) : f \in FileIds, x \in {Undef, EmptyStr}}
    [] tool = "googledrive_create_file" ->
         {([name |-> Lit("doc"), parentId |-> p, content |-> c]) :
            p \in {Undef, Lit("p1")}, c \in Contents}
    [] tool = "googledrive_update_file" ->
         {([fileId |-> Lit("f1"), name |-> Lit("doc"), content |-> c]) : c \in Contents}
    [] tool = "googledrive_export_file" ->
         {([fileId |-> f, mimeType |-> Str(<<"application", "/", "pdf">>)]) :
            f \in FileIds}
    [] tool = "googledrive_generate_ids" -> {([count |-> c]) : c \in {Undef, NumV(2)}}
    [] tool = "googledrive_create_folder" ->
         {([name |-> Lit("dir"), parentId |-> p]) : p \in {Undef, Lit("p1")}}
    [] tool = "googledrive_list_folder" ->
         {([folderId |-> Lit("p1"), pageToken |-> t]) : t \in PageTokens}
    [] tool = "googledrive_move_file" ->
         {([fileId |-> f, newParentId |-> n, removeFromCurrentParent |-> x]) :
            f \in FileIds, n \in {Lit("p9"), Lit("p1")},
            x \in {Undef, Bool(TRUE), Bool(FALSE)}}
    [] tool \in {"googledrive_list_permissions", "googledrive_list_comments",
                 "googledrive_list_replies", "googledrive_list_revisions",
                 "googledrive_list_access_proposals"} ->
         {(Ids(f) @@ [pageToken |-> t]) : f \in FileIds, t \in PageTokens}
    [] tool \in {"googledrive_share_with_user", "googledrive_share_with_group"} ->
         {(Ids(f) @@ [email |-> Str(<<"ann", "@", "example.org">>),
                      role |-> Lit("reader")]) : f \in FileIds}
    [] tool = "googledrive_share_with_domain" ->
         {(Ids(f) @@ [domain |-> Lit("example.org"), role |-> Lit("reader")]) :
            f \in FileIds}
    [] tool = "googledrive_make_public" ->
         {(Ids(f) @@ [role |-> x]) : f \in FileIds, x \in {Undef, Lit("writer")}}
    [] tool = "googledrive_update_permission" ->
         {(Ids(f) @@ [role |-> Lit("writer")]) : f \in FileIds}
    [] tool \in {"googledrive_create_comment", "googledrive_update_comment",
                 "googledrive_create_reply", "googledrive_update_reply"} ->
         {(Ids(f) @@ [content |-> Lit("hello")]) : f \in FileIds}
    [] tool \in {"googledrive_resolve_comment", "googledrive_reopen_comment"} ->
         {(Ids(f) @@ [content |-> c]) : f \in FileIds, c \in {Undef, Lit("hello")}}
    [] tool = "googledrive_list_drives" -> {([pageToken |-> t]) : t \in PageTokens}
    [] tool \in {"googledrive_get_drive", "googledrive_delete_drive",
                 "googledrive_hide_drive", "googledrive_unhide_drive"} ->
         {([driveId |-> Lit("d1")])}
    [] tool = "googledrive_create_drive" ->
         {([requestId |-> Lit("req1"), name |-> Lit("team")])}
    [] tool = "googledrive_update_drive" ->
         {([driveId |-> Lit("d1"), name |-> Lit("team")])}
    [] tool = "googledrive_update_drive_restrictions" ->
         {([driveId |-> Lit("d1"), domainUsersOnly |-> Bool(TRUE)])}
    [] tool = "googledrive_get_changes_start_token" ->
         {([driveId |-> d]) : d \in {Undef, Lit("d1")}}
    [] tool = "googledrive_list_changes" ->
         {([pageToken |-> Lit("pt1"), includeRemoved |-> x]) :
            x \in {Undef, Bool(FALSE)}}
    [] tool = "googledrive_watch_changes" ->
         {([pageToken |-> Lit("pt1"), channelId |-> Lit("ch1"),
            webhookUrl |-> Str(<<"https", ":", "/", "/", "hook.example.org">>)])}
    [] tool = "googledrive_watch_file" ->
         {([fileId |-> f, channelId |-> Lit("ch1"),
            webhookUrl |-> Str(<<"https", ":", "/", "/", "hook.example.org">>)]) :
            f \in FileIds}
    [] tool = "googledrive_stop_channel" ->
         {([channelId |-> Lit("ch1"), resourceId |-> Lit("res1")])}
    [] tool = "googledrive_get_app" -> {([appId |-> Lit("app1")])}
    [] tool \in {"googledrive_accept_access_proposal", "googledrive_deny_access_proposal"} ->
         {(Ids(f) @@ [sendNotification |-> n]) :
            f \in FileIds, n \in {Undef, Bool(FALSE)}}
    [] OTHER -> {(Ids(f)) : f \in FileIds}

\* an invocation is made through a tool or on the client directly ("")
Direct == ""

\* bodies of an error response
ErrorBodies ==
  {NotJson(""), NotJson("<html>"), Null, Lit("denied"), Obj(<<>>),
   Obj([error |-> Null]),
   Obj([error |-> Lit("denied")]),
   Obj([error |-> Obj(<<>>)]),
   Obj([error |-> Obj([message |-> EmptyStr])]),
   Obj([error |-> Obj([message |-> Lit("quota")])]),
   Obj([message |-> Lit("top")]),
   Obj([error |-> Obj([message |-> EmptyStr]), message |-> Lit("top")]),
   Obj([error |-> Obj([message |-> Lit("quota")]), message |-> Lit("top")])}

Items == Arr(<<Lit("item1"), Lit("item2")>>)

\* the bodies the remote may answer operation op with: the error bodies;
\* pages of a listing with and without its resource array and its next page
\* token (an empty token among them); pages of changes with each combination
\* of the two cursors; file resources with two parents, none, a parents that
\* is no array, and no parents property; and the resources of the other reads
BodiesOf(op) ==
  ErrorBodies
  \cup (IF op \in ListOps
        THEN {Obj(ListKey(op) :> Items), Obj(("nextPageToken" :> Lit("next1")))}
             \cup {Obj((ListKey(op) :> Items) @@ ("nextPageToken" :> t)) :
                     t \in {Lit("next1"), EmptyStr}}
        ELSE {})
  \cup (IF op = "listChanges"
        THEN {Obj([changes |-> Items, nextPageToken |-> Lit("next1")]),
              Obj([changes |-> Items, newStartPageToken |-> Lit("start2")]),
              Obj([changes |-> Items, nextPageToken |-> Lit("next1"),
                   newStartPageToken |-> Lit("start2")]),
              Obj([changes |-> Items])}
        ELSE {})
  \cup (IF op \in {"getFile", "updateFile"}
        THEN {Obj([id |-> Lit("f1"), parents |-> Arr(<<Lit("p1"), Lit("p2")>>)]),
              Obj([id |-> Lit("f1"), parents |-> Arr(<<>>)]),
              Obj([id |-> Lit("f1"), parents |-> Lit("p1")]),
              Obj([id |-> Lit("f1")])}
        ELSE {})
  \cup (IF op \in {"testConnection", "getAbout", "generateIds", "getStartPageToken",
                   "listApps"}
        THEN {Obj([user |-> Obj([displayName |-> Lit("Ann")])]),
              Obj([ids |-> Arr(<<Lit("id1")>>)]),
              Obj([startPageToken |-> Lit("start1")]),
              Obj([items |-> Items])}
        ELSE {})

Response(status, retryAfter, contentType, body) ==
  [status |-> status, retryAfter |-> retryAfter, contentType |-> contentType,
   body |-> body]

\* the responses the remote may give to operation op.  Invoked directly:
\* every status, with and without Retry-After, every content type and every
\* body of the operation.  Invoked by a tool: every status, a JSON and a text
\* content type, and a body that is null, an empty object, an error object or
\* a resource of the operation
ResponsesOf(tool, op) ==
  IF tool = Direct
  THEN {Response(st, ra, ct, b) :
          st \in {200, 201, 204, 400, 401, 403, 404, 429, 500}, ra \in {NoHeader, [present |-> TRUE, chars |-> <<"1", "2", "0">>]},
          ct \in {"", "application/json; charset=UTF-8", "text/plain"},
          b \in BodiesOf(op)}
  ELSE {Response(st, [present |-> TRUE, chars |-> <<"1", "2", "0">>], ct, b) :
          st \in {200, 201, 204, 400, 401, 403, 404, 429, 500}, ct \in {"application/json; charset=UTF-8", "text/plain"},
          b \in {Null, Obj(<<>>), Obj([error |-> Obj([message |-> Lit("quota")])])}
                 \cup (BodiesOf(op) \ ErrorBodies)}

\* ------------------------------------------------------------------------
\* State
\* ------------------------------------------------------------------------
VARIABLES
  client,    \* client[i]: the GoogleDriveClientImpl of slot i, or NoClient
  pc,        \* pc[i]: "none" (no client), "ready", "fetching" (awaiting fetch), "done",
             \* "replied" (the worker answered the inbound request itself)
  inv,       \* inv[i]: the invocation running in slot i: tool, op, arguments, call
  fetches,   \* fetches[i]: the requests the invocation passed to fetch, in order
  response,  \* response[i]: the response fetch resolved with, or NoResponse
  result,    \* result[i]: what request(), the client operation and the tool returned
  inbound    \* inbound[i]: the request the worker's fetch() was called with and the
             \* Response it returned itself (status 0: none)

vars == <<client, pc, inv, fetches, response, result, inbound>>

\* parseTenantCredentials(request): the access token and the base URL are the
\* values of the request's X-Google-Access-Token and X-Google-Base-URL
\* headers, undefined when the header is absent
parseTenantCredentials(request) ==
  [accessToken |-> IF "X-Google-Access-Token" \in DOMAIN request.headers
                   THEN request.headers["X-Google-Access-Token"] ELSE Undef,
   baseUrl |-> IF "X-Google-Base-URL" \in DOMAIN request.headers
               THEN request.headers["X-Google-Base-URL"] ELSE Undef]

\* validateCredentials(credentials) throws when there is no access token (the
\* text of its message is that of getAuthHeaders())
validateCredentials(credentials) ==
  IF credentials.accessToken = Undef
  THEN Throw(AuthenticationError(
         "No credentials provided. Include X-Google-Access-Token header."))
  ELSE Return(Undef)

\* what fetch() answers to a request that is not a POST to /mcp: the health
\* check, the 501 of the SSE endpoint, and the description of the server
StaticReply(request) ==
  CASE request.pathname = "/health" ->
         Response(200, NoHeader, "application/json",
               Stringify([status |-> Lit("ok"), server |-> Lit("primrose-mcp-googledrive")]))
    [] request.pathname = "/sse" ->
         Response(501, NoHeader, "text/plain;charset=UTF-8",
               Lit("SSE endpoint requires Durable Objects. Enable in wrangler.jsonc."))
    [] OTHER ->
         Response(200, NoHeader, "application/json",
               Stringify([name |-> Lit("primrose-mcp-googledrive"),
                          version |-> Lit("1.0.0"),
                          description |-> Lit("Google Drive MCP Server - Multi-tenant"),
                          endpoints |->
                            Stringify([mcp |-> Lit("/mcp (POST) - Streamable HTTP MCP endpoint"),
                                       health |-> Lit("/health - Health check")]),
                          authentication |->
                            Stringify([description |->
                                         Lit("Pass tenant credentials via request headers"),
                                       required_headers |->
                                         Obj([n \in {"X-Google-Access-Token"} |->
                                                Lit("OAuth access token for Google Drive API")]),
                                       optional_headers |->
                                         Obj([n \in {"X-Google-Base-URL"} |->
                                                Lit("Override the default Google Drive API base URL")])]),
                          tools |->
                            Arr(<<
                                Lit("googledrive_test_connection"), Lit("googledrive_get_about"),
                                Lit("googledrive_get_storage_quota"),
                                Lit("googledrive_get_user_info"),
                                Lit("googledrive_get_export_formats"),
                                Lit("googledrive_get_import_formats"), Lit("googledrive_list_files"),
                                Lit("googledrive_get_file"), Lit("googledrive_create_file"),
                                Lit("googledrive_update_file"), Lit("googledrive_copy_file"),
                                Lit("googledrive_delete_file"), Lit("googledrive_empty_trash"),
                                Lit("googledrive_export_file"), Lit("googledrive_download_file"),
                                Lit("googledrive_generate_ids"), Lit("googledrive_search_files"),
                                Lit("googledrive_create_folder"), Lit("googledrive_list_folder"),
                                Lit("googledrive_move_file"), Lit("googledrive_list_permissions"),
                                Lit("googledrive_get_permission"), Lit("googledrive_share_with_user"),
                                Lit("googledrive_share_with_group"),
                                Lit("googledrive_share_with_domain"), Lit("googledrive_make_public"),
                                Lit("googledrive_update_permission"),
                                Lit("googledrive_remove_permission"),
                                Lit("googledrive_list_comments"), Lit("googledrive_get_comment"),
                                Lit("googledrive_create_comment"), Lit("googledrive_update_comment"),
                                Lit("googledrive_delete_comment"), Lit("googledrive_resolve_comment"),
                                Lit("googledrive_reopen_comment"), Lit("googledrive_list_replies"),
                                Lit("googledrive_get_reply"), Lit("googledrive_create_reply"),
                                Lit("googledrive_update_reply"), Lit("googledrive_delete_reply"),
                                Lit("googledrive_list_revisions"), Lit("googledrive_get_revision"),
                                Lit("googledrive_update_revision"),
                                Lit("googledrive_delete_revision"), Lit("googledrive_keep_revision"),
                                Lit("googledrive_list_drives"), Lit("googledrive_get_drive"),
                                Lit("googledrive_create_drive"), Lit("googledrive_update_drive"),
                                Lit("googledrive_delete_drive"), Lit("googledrive_hide_drive"),
                                Lit("googledrive_unhide_drive"),
                                Lit("googledrive_update_drive_restrictions"),
                                Lit("googledrive_get_changes_start_token"),
                                Lit("googledrive_list_changes"), Lit("googledrive_watch_changes"),
                                Lit("googledrive_watch_file"), Lit("googledrive_stop_channel"),
                                Lit("googledrive_list_apps"), Lit("googledrive_get_app")>>)]))

NoClient == [credentials |-> [accessToken |-> Undef, baseUrl |-> Undef],
             baseUrl |-> "", uploadUrl |-> ""]
NoInv == [tool |-> Direct, op |-> "", supplied |-> <<>>, args |-> NoArgs,
          call |-> Call("", NoOptions, FALSE)]
NoResponse == Response(0, NoHeader, "", NotJson(""))
\* no inbound request
NoInbound ==
  [request |-> [pathname |-> "", method |-> "", headers |-> <<>>], reply |-> NoResponse]
NoResult == [request |-> Return(Undef), op |-> Return(Undef), tool |-> ToolSuccess(Undef)]

\* what the invocation returns to its caller, given the result r of request()
Results(tool, op, supplied, r) ==
  LET o == OpResult(op, r)
  IN [request |-> r, op |-> o,
      tool |-> IF tool = Direct THEN ToolSuccess(Undef)
               ELSE ToolResult(tool, Args(supplied), o)]

Init ==
  /\ client = [i \in Slots |-> NoClient]
  /\ pc = [i \in Slots |-> "none"]
  /\ inv = [i \in Slots |-> NoInv]
  /\ fetches = [i \in Slots |-> <<>>]
  /\ response = [i \in Slots |-> NoResponse]
  /\ result = [i \in Slots |-> NoResult]
  /\ inbound = [i \in Slots |-> NoInbound]

\* createGoogleDriveClient(credentials), for one inbound request
Construct(i, credentials) ==
  /\ pc[i] = "none"
  /\ client' = [client EXCEPT ![i] = NewClient(credentials)]
  /\ pc' = [pc EXCEPT ![i] = "ready"]
  /\ UNCHANGED <<inv, fetches, response, result, inbound>>

\* the worker's fetch() that builds the server and its client before it
\* validates the credentials
fetch_ServerFirst(i, request) ==
  /\ pc[i] = "none"
  /\ \E credentials \in {parseTenantCredentials(request)} :
       IF request.pathname = "/mcp" /\ request.method = "POST"
       THEN /\ client' = [client EXCEPT ![i] = NewClient(credentials)]
            /\ IF validateCredentials(credentials).k = "throw"
               THEN /\ pc' = [pc EXCEPT ![i] = "replied"]
                    /\ inbound' = [inbound EXCEPT ![i] =
                         [request |-> request,
                          reply |-> Response(401, NoHeader, "application/json",
                                          Stringify([error |-> Lit("Unauthorized"),
                                                     message |-> validateCredentials(credentials).err.message,
                                                     required_headers |->
                                                       Arr(<<Lit("X-Google-Access-Token")>>)]))]]
               ELSE /\ pc' = [pc EXCEPT ![i] = "ready"]
                    /\ inbound' = [inbound EXCEPT ![i] =
                                     [request |-> request, reply |-> NoResponse]]
       ELSE /\ pc' = [pc EXCEPT ![i] = "replied"]
            /\ inbound' = [inbound EXCEPT ![i] =
                             [request |-> request, reply |-> StaticReply(request)]]
            /\ UNCHANGED client
  /\ UNCHANGED <<inv, fetches, response, result>>

\* the worker's fetch() with the credentials kept in one module-level client:
\* the client built for this request also replaces the client of every
\* request still being served
fetch_ModuleClient(i, request) ==
  /\ pc[i] = "none"
  /\ \E credentials \in {parseTenantCredentials(request)} :
       IF request.pathname = "/mcp" /\ request.method = "POST"
       THEN IF validateCredentials(credentials).k = "throw"
            THEN /\ pc' = [pc EXCEPT ![i] = "replied"]
                 /\ inbound' = [inbound EXCEPT ![i] =
                      [request |-> request,
                       reply |-> Response(401, NoHeader, "application/json",
                                       Stringify([error |-> Lit("Unauthorized"),
                                                  message |-> validateCredentials(credentials).err.message,
                                                  required_headers |->
                                                    Arr(<<Lit("X-Google-Access-Token")>>)]))]]
                 /\ UNCHANGED client
            ELSE /\ client' = [j \in Slots |->
                                 IF j = i \/ pc[j] \in {"ready", "fetching", "done"}
                                 THEN NewClient(credentials) ELSE client[j]]
                 /\ pc' = [pc EXCEPT ![i] = "ready"]
                 /\ inbound' = [inbound EXCEPT ![i] =
                                  [request |-> request, reply |-> NoResponse]]
       ELSE /\ pc' = [pc EXCEPT ![i] = "replied"]
            /\ inbound' = [inbound EXCEPT ![i] =
                             [request |-> request, reply |-> StaticReply(request)]]
            /\ UNCHANGED client
  /\ UNCHANGED <<inv, fetches, response, result>>

\* the worker's fetch(request): /mcp POST parses and validates the tenant
\* credentials, answers 401 when they are rejected and otherwise builds the
\* server with its own client, whose handlers then serve the request; every
\* other request is answered by the worker itself
fetch(i, request) ==
  /\ pc[i] = "none"
  /\ \E credentials \in {parseTenantCredentials(request)} :
       IF request.pathname = "/mcp" /\ request.method = "POST"
       THEN IF validateCredentials(credentials).k = "throw"
            THEN /\ pc' = [pc EXCEPT ![i] = "replied"]
                 /\ inbound' = [inbound EXCEPT ![i] =
                      [request |-> request,
                       reply |-> Response(401, NoHeader, "application/json",
                                       Stringify([error |-> Lit("Unauthorized"),
                                                  message |-> validateCredentials(credentials).err.message,
                                                  required_headers |->
                                                    Arr(<<Lit("X-Google-Access-Token")>>)]))]]
                 /\ UNCHANGED client
            ELSE /\ client' = [client EXCEPT ![i] = NewClient(credentials)]
                 /\ pc' = [pc EXCEPT ![i] = "ready"]
                 /\ inbound' = [inbound EXCEPT ![i] =
                                  [request |-> request, reply |-> NoResponse]]
       ELSE /\ pc' = [pc EXCEPT ![i] = "replied"]
            /\ inbound' = [inbound EXCEPT ![i] =
                             [request |-> request, reply |-> StaticReply(request)]]
            /\ UNCHANGED client
  /\ UNCHANGED <<inv, fetches, response, result>>

\* an invocation starts: the handler calls the client operation, which builds
\* its call and runs request() up to the await of fetch
Invoke(i, tool, op, supplied) ==
  /\ pc[i] = "ready"
  /\ \E a \in {IF tool = Direct THEN Args(supplied)
                ELSE createStatelessServer(tool, Args(supplied), Undef).args} :
     \E call \in {OpCall(op, a)} :
     \E sent \in {requestFetch(client[i], call.endpoint, call.options,
                                call.useUploadUrl)} :
       /\ inv' = [inv EXCEPT ![i] = [tool |-> tool, op |-> op, supplied |-> supplied,
                                     args |-> a, call |-> call]]
       /\ IF sent.k = "throw"
          THEN /\ pc' = [pc EXCEPT ![i] = "done"]
               /\ fetches' = [fetches EXCEPT ![i] = <<>>]
               /\ result' = [result EXCEPT ![i] = Results(tool, op, supplied, sent)]
          ELSE /\ pc' = [pc EXCEPT ![i] = "fetching"]
               /\ fetches' = [fetches EXCEPT ![i] = <<sent.v>>]
               /\ result' = [result EXCEPT ![i] = NoResult]
  /\ response' = [response EXCEPT ![i] = NoResponse]
  /\ UNCHANGED <<client, inbound>>

\* request() of slot i returned r for the response resp: the client
\* operation returns (o), and the handler either returns (its try block or
\* its catch block) or awaits its next client operation (n), which runs up to
\* the await of fetch
Resume(i, resp, r) ==
  \E o \in {OpResult(inv[i].op, r)} :
  \E n \in {IF inv[i].tool = Direct \/ o.k = "throw"
            THEN [op |-> "", args |-> Return(NoArgs)]
            ELSE ToolNext(inv[i].tool, inv[i].op, Args(inv[i].supplied), o.v)} :
    /\ response' = [response EXCEPT ![i] = resp]
    /\ UNCHANGED inbound
    /\ IF n.op = ""
       THEN /\ result' = [result EXCEPT ![i] =
                            Results(inv[i].tool, inv[i].op, inv[i].supplied, r)]
            /\ pc' = [pc EXCEPT ![i] = "done"]
            /\ UNCHANGED <<inv, fetches>>
       ELSE IF n.args.k = "throw"
       THEN /\ result' = [result EXCEPT ![i] =
                            [request |-> r, op |-> o,
                             tool |-> ToolResult(inv[i].tool, Args(inv[i].supplied),
                                                 n.args)]]
            /\ pc' = [pc EXCEPT ![i] = "done"]
            /\ UNCHANGED <<inv, fetches>>
       ELSE \E call \in {OpCall(n.op, n.args.v)} :
            \E sent \in {requestFetch(client[i], call.endpoint, call.options,
                                       call.useUploadUrl)} :
              /\ inv' = [inv EXCEPT ![i] = [tool |-> inv[i].tool, op |-> n.op,
                                            supplied |-> inv[i].supplied,
                                            args |-> n.args.v, call |-> call]]
              /\ IF sent.k = "throw"
                 THEN /\ pc' = [pc EXCEPT ![i] = "done"]
                      /\ result' = [result EXCEPT ![i] =
                                      Results(inv[i].tool, n.op, inv[i].supplied, sent)]
                      /\ UNCHANGED fetches
                 ELSE /\ fetches' = [fetches EXCEPT ![i] = Append(@, sent.v)]
                      /\ UNCHANGED <<pc, result>>

\* Receive with the endpoint kept in one place shared by the invocations: the
\* endpoint reported is that of the highest slot still waiting for its response
Receive_SharedEndpoint(i, resp) ==
  /\ pc[i] = "fetching"
  /\ Resume(i, resp,
            requestHandle(
              inv[CHOOSE j \in Slots :
                    /\ pc[j] = "fetching"
                    /\ \A k \in Slots : pc[k] = "fetching" => k <= j
                 ].call.endpoint,
              resp))
  /\ UNCHANGED client

\* Receive that sends the request once more when the first answer is a 429
Receive_RetryOnce(i, resp) ==
  /\ pc[i] = "fetching"
  /\ IF resp.status = 429 /\ response[i] = NoResponse
     THEN /\ response' = [response EXCEPT ![i] = resp]
          /\ fetches' = [fetches EXCEPT ![i] = Append(@, @[Len(@)])]
          /\ UNCHANGED <<pc, inv, result, inbound>>
     ELSE Resume(i, resp, requestHandle(inv[i].call.endpoint, resp))
  /\ UNCHANGED client

\* Receive with a page cache kept across invocations and clients: when
\* another invocation holds a response for the same endpoint, that response is
\* interpreted instead of the one fetch resolved with
Receive_CachedPage(i, resp) ==
  /\ pc[i] = "fetching"
  /\ LET cached == {j \in Slots \ {i} : /\ pc[j] = "done"
                                        /\ fetches[j] # <<>>
                                        /\ inv[j].call.endpoint = inv[i].call.endpoint}
     IN Resume(i, resp,
               requestHandle(inv[i].call.endpoint,
                             IF cached = {} THEN resp
                             ELSE response[CHOOSE j \in cached : TRUE]))
  /\ UNCHANGED client

\* fetch resolves: request() interprets the response
Receive(i, resp) ==
  /\ pc[i] = "fetching"
  /\ Resume(i, resp, requestHandle(inv[i].call.endpoint, resp))
  /\ UNCHANGED client

\* the caller has the result; the client is ready for the next invocation
Complete(i) ==
  /\ pc[i] = "done"
  /\ pc' = [pc EXCEPT ![i] = "ready"]
  /\ inv' = [inv EXCEPT ![i] = NoInv]
  /\ fetches' = [fetches EXCEPT ![i] = <<>>]
  /\ response' = [response EXCEPT ![i] = NoResponse]
  /\ result' = [result EXCEPT ![i] = NoResult]
  /\ UNCHANGED <<client, inbound>>

\* the inbound request ends and its client is discarded
Discard(i) ==
  /\ pc[i] \in {"ready", "replied"}
  /\ pc' = [pc EXCEPT ![i] = "none"]
  /\ client' = [client EXCEPT ![i] = NoClient]
  /\ inbound' = [inbound EXCEPT ![i] = NoInbound]
  /\ UNCHANGED <<inv, fetches, response, result>>

\* ------------------------------------------------------------------------
\* Spec: one client, every operation, every modelled response
\* ------------------------------------------------------------------------
\* the invocations and the responses of slot i (the guards stand before the
\* quantifiers so that the input sets are built only when they are needed)
Next ==
  \/ \E c \in [accessToken : {Undef, EmptyStr, Lit("tokA")}, baseUrl : {Undef}] :
       Construct(1, c)
  \/ /\ pc[1] = "ready"
     /\ \/ \E op \in ClientOps : \E a \in OpArgsOf(op) : Invoke(1, Direct, op, a)
        \/ \E tool \in Tools :
             \E a \in ToolArgsOf(tool) : Invoke(1, tool, ToolOp(tool), a)
  \/ /\ pc[1] = "fetching"
     /\ \E r \in ResponsesOf(inv[1].tool, inv[1].op) : Receive(1, r)
  \/ Complete(1)
  \/ Discard(1)

Spec == Init /\ [][Next]_vars

\* ------------------------------------------------------------------------
\* SpecRetry: 429 responses with every Retry-After value up to MaxHdrLen
\* characters
\* ------------------------------------------------------------------------
NextRetry ==
  \/ Construct(1, [accessToken |-> Lit("tokA"), baseUrl |-> Undef])
  \/ /\ pc[1] = "ready"
     /\ \/ \E op \in {"getFile", "listFiles", "createFile"} :
             \E a \in OpArgsOf(op) : Invoke(1, Direct, op, a)
        \/ \E a \in ToolArgsOf("googledrive_delete_file") :
             Invoke(1, "googledrive_delete_file", "deleteFile", a)
  \/ /\ pc[1] = "fetching"
     /\ \E h \in {NoHeader}
                 \cup {[present |-> TRUE, chars |-> chars] :
                         chars \in UNION {[1..k -> {"0", "1", "2", "-", " ", "W"}] :
                                            k \in 0..MaxHdrLen}} :
          Receive(1, Response(429, h, "", NotJson("")))
  \/ Complete(1)
  \/ Discard(1)

SpecRetry == Init /\ [][NextRetry]_vars

\* ------------------------------------------------------------------------
\* SpecConc: the worker serving MaxClients inbound requests at a time, their
\* steps interleaved: tool calls of two tenants, one of them with a base URL
\* of its own, a tool call without an access token, and requests for the
\* other endpoints
\* ------------------------------------------------------------------------
NextConc ==
  \E i \in Slots :
    \/ \E request \in
          {[pathname |-> "/mcp", method |-> "POST", headers |-> h] :
             h \in {<<>>,
                    [n \in {"X-Google-Access-Token"} |-> Lit("tokA")],
                    [n \in {"X-Google-Access-Token", "X-Google-Base-URL"} |->
                       IF n = "X-Google-Access-Token" THEN Lit("tokB")
                       ELSE Str(<<"https://", "drive.proxy.test", "/v3">>)]}}
          \cup {[pathname |-> p, method |-> "GET",
                  headers |-> [n \in {"X-Google-Access-Token"} |-> Lit("tokA")]] :
                  p \in {"/health", "/sse", "/mcp"}} :
         fetch(i, request)
    \/ /\ pc[i] = "ready"
       /\ \/ \E op \in {"getFile", "emptyTrash"} :
               \E a \in {x \in OpArgsOf(op) : "fields" \notin DOMAIN x \/ x.fields = Undef} :
                 Invoke(i, Direct, op, a)
          \/ \E a \in ToolArgsOf("googledrive_delete_file") :
               Invoke(i, "googledrive_delete_file", "deleteFile", a)
    \/ /\ pc[i] = "fetching"
       /\ \E st \in {200, 404} :
            Receive(i, Response(st, NoHeader, "application/json; charset=UTF-8",
                                Obj(<<>>)))
    \/ Complete(i)
    \/ Discard(i)

SpecConc == Init /\ [][NextConc]_vars

\* ------------------------------------------------------------------------
\* SpecChanges: MaxClients clients with the same credentials that page
\* through changes, directly and through googledrive_list_changes, their
\* invocations interleaved
\* ------------------------------------------------------------------------
NextChanges ==
  \E i \in Slots :
    \/ Construct(i, [accessToken |-> Lit("tokA"), baseUrl |-> Undef])
    \/ /\ pc[i] = "ready"
       /\ \E tool \in {Direct, "googledrive_list_changes"} :
            \E t \in {Lit("pt1"), Lit("pt2")} :
              Invoke(i, tool, "listChanges", [pageToken |-> t])
    \/ /\ pc[i] = "fetching"
       /\ \/ \E b \in BodiesOf("listChanges") \ ErrorBodies :
               Receive(i, Response(200, NoHeader, "application/json; charset=UTF-8", b))
          \/ Receive(i, Response(500, NoHeader, "application/json; charset=UTF-8",
                                 Obj(<<>>)))
    \/ Complete(i)
    \/ Discard(i)

SpecChanges == Init /\ [][NextChanges]_vars

\* ------------------------------------------------------------------------
\* SpecCalls: the requests of createFile and updateFile for every combination
\* of metadata and content, among them empty values and texts that hold
\* quotes, line breaks and the boundary; the requests of the operations with
\* optional query parameters for none, each one and all of them supplied; and
\* the requests of every other operation; each with and without a base URL
\* in the credentials
\* ------------------------------------------------------------------------
NextCalls ==
  LET names == {Lit("doc"), Str(<<"a", "\"", "\r\n", "--", boundary, "\r\n", "b">>)}
      mimeTypes == {Undef, EmptyStr, Str(<<"text", "/", "csv">>)}
      texts == {Undef, EmptyStr, Lit("hello"), Str(<<"a", "\r\n", "b">>),
                Str(<<"x", boundary, "y">>),
                Str(<<"a", "\r\n", "--", boundary, "\r\n", "b">>)}
  IN \/ \E b \in {Undef, EmptyStr, Str(<<"https://", "drive.proxy.test", "/v3">>)} :
          Construct(1, [accessToken |-> Lit("tokA"), baseUrl |-> b])
     \/ /\ pc[1] = "ready"
        /\ \/ \E n \in names, m \in mimeTypes, c \in texts,
                  p \in {Undef, Arr(<<>>), Arr(<<Lit("p1"), Lit("p2")>>)},
                  d \in {Undef, EmptyStr, Lit("notes")} :
                Invoke(1, Direct, "createFile",
                       [name |-> n, mimeType |-> m, parents |-> p, description |-> d,
                        content |-> c])
           \/ \E n \in {Undef} \cup names, m \in mimeTypes, c \in texts,
                  ap \in {Undef, Lit("p3")} :
                Invoke(1, Direct, "updateFile",
                       [fileId |-> Lit("f1"), name |-> n, mimeType |-> m,
                        content |-> c, addParents |-> ap])
           \/ \E op \in ClientOps :
                \E given \in {{}, DOMAIN ParamsOf(op).optional}
                              \cup {{n} : n \in DOMAIN ParamsOf(op).optional} :
                  /\ DOMAIN ParamsOf(op).optional # {}
                  /\ Invoke(1, Direct, op,
                            ParamsOf(op).required
                              @@ [n \in given |-> ParamsOf(op).optional[n]])
           \/ \E op \in ClientOps : \E a \in OpArgsOf(op) : Invoke(1, Direct, op, a)
     \/ /\ pc[1] = "fetching"
        /\ \E st \in {200, 404} :
             Receive(1, Response(st, NoHeader, "application/json; charset=UTF-8",
                                 Obj(<<>>)))
     \/ Complete(1)
     \/ Discard(1)

SpecCalls == Init /\ [][NextCalls]_vars

\* ========================================================================
\* Properties
\* ========================================================================
Done(i) == pc[i] = "done"
\* the invocation of slot i has received a response
Answered(i) == pc[i] = "done" /\ fetches[i] # <<>>
NoToken(i) == pc[i] # "none" /\ ~Truthy(client[i].credentials.accessToken)
FailsWith(r, kind) == r.k = "throw" /\ r.err.kind = kind

OutcomeKind(r) ==
  IF r.k = "throw" THEN r.err.kind
  ELSE IF r.v.t = "undefined" THEN "empty"
  ELSE IF r.v.t = "text" THEN "text"
  ELSE "json"

\* the ordered rule list of the status interpretation, first match wins
RuleKind(resp) ==
  IF resp.status = 429 THEN "RateLimitError"
  ELSE IF resp.status = 401 THEN "AuthenticationError"
  ELSE IF resp.status = 403 THEN "ForbiddenError"
  ELSE IF resp.status = 404 THEN "NotFoundError"
  ELSE IF resp.status < 200 \/ resp.status > 299 THEN "GoogleDriveApiError"
  ELSE IF resp.status = 204 THEN "empty"
  ELSE IF IncludesApplicationJson(resp.contentType) THEN "json"
  ELSE "text"

\* C2: the outcome of the pipeline is a total function of the response,
\* given by the ordered rule list 429, 401, 403, 404, other non-2xx, 204,
\* 2xx with a JSON content type, 2xx otherwise; every response yields one of
\* the eight outcome kinds.
C2_OrderedRules ==
  \A i \in Slots :
    Answered(i) => OutcomeKind(result[i].request) = RuleKind(response[i])

\* ------------------------------------------------------------------------
\* C3: a 401 response yields an AuthenticationError, whatever the HTTP
\* method, the operation, the response body and the endpoint family (metadata
\* or upload) of the call; every operation but testConnection, which catches
\* it, fails with that error.
C3_Unauthorized ==
  \A i \in Slots :
    (Answered(i) /\ response[i].status = 401) =>
      /\ result[i].request =
           Throw(AuthenticationError("Authentication failed. Check your OAuth access token."))
      /\ inv[i].op # "testConnection" => result[i].op = result[i].request

\* a multipart PATCH to the upload endpoint was answered 401 with a body that
\* is not JSON
C3_Witness ==
  /\ Answered(1)
  /\ response[1].status = 401
  /\ response[1].body = NotJson("<html>")
  /\ inv[1].op = "updateFile"
  /\ fetches[1][1].method = "PATCH"
  /\ inv[1].call.useUploadUrl
  /\ FailsWith(result[1].op, "AuthenticationError")

\* ------------------------------------------------------------------------
\* the retry-after value the claim gives for a Retry-After header: the
\* integer it parses to, 60 when it is absent or does not parse
ClaimedRetryAfter(h) ==
  IF ~h.present \/ parseInt(h.chars).nan THEN Num(60) ELSE parseInt(h.chars)

\* C4: a 429 response yields a RateLimitError whose retry-after value is the
\* integer parsed from the Retry-After header, and 60 whenever the header is
\* absent or unparsable; the value is always a defined number.
C4_RetryAfter ==
  \A i \in Slots :
    (Answered(i) /\ response[i].status = 429) =>
      /\ FailsWith(result[i].request, "RateLimitError")
      /\ result[i].request.err.retryAfter = ClaimedRetryAfter(response[i].retryAfter)
      /\ ~result[i].request.err.retryAfter.nan

\* ------------------------------------------------------------------------
\* a non-empty string
NonEmptyString(v) == v.t = "string" /\ v.s # <<>>
\* body.error.message, when the body is a JSON object whose error property is
\* an object with a non-empty string message
HasErrorMessage(body) ==
  /\ body.t = "object"
  /\ "error" \in DOMAIN body.f
  /\ body.f["error"].t = "object"
  /\ "message" \in DOMAIN body.f["error"].f
  /\ NonEmptyString(body.f["error"].f["message"])
HasTopMessage(body) ==
  /\ body.t = "object"
  /\ "message" \in DOMAIN body.f
  /\ NonEmptyString(body.f["message"])

\* C5: a 403 response always yields a ForbiddenError; its message is
\* error.message of the JSON body when that is present and not empty, and
\* 'Access denied' for every other body.
C5_Forbidden ==
  \A i \in Slots :
    (Answered(i) /\ response[i].status = 403) =>
      result[i].request =
        Throw(ForbiddenError(IF HasErrorMessage(response[i].body)
                             THEN response[i].body.f["error"].f["message"]
                             ELSE Lit("Access denied")))

\* a 403 whose body carries error.message and a 403 whose body is not JSON
C5_Witness ==
  /\ Answered(1)
  /\ response[1].status = 403
  /\ response[1].body = Obj([error |-> Obj([message |-> Lit("quota")]), message |-> Lit("top")])
  /\ result[1].request = Throw(ForbiddenError(Lit("quota")))

\* ------------------------------------------------------------------------
\* C6: a non-2xx response other than 429, 401, 403 and 404 yields a
\* GoogleDriveApiError that carries the status of the response and the
\* message body.error.message, else body.message, else 'API error: <status>'.
C6_ApiError ==
  \A i \in Slots :
    (Answered(i) /\ ~Ok(response[i].status)
       /\ response[i].status \notin {429, 401, 403, 404}) =>
      result[i].request =
        Throw(GoogleDriveApiError(
                IF HasErrorMessage(response[i].body)
                THEN response[i].body.f["error"].f["message"]
                ELSE IF HasTopMessage(response[i].body)
                THEN response[i].body.f["message"]
                ELSE Lit("API error: " \o ToString(response[i].status)),
                response[i].status))

\* a 500 whose body has an empty error.message and a top-level message
C6_Witness ==
  /\ Answered(1)
  /\ response[1].status = 500
  /\ response[1].body = Obj([error |-> Obj([message |-> EmptyStr]), message |-> Lit("top")])
  /\ result[1].request = Throw(GoogleDriveApiError(Lit("top"), 500))

C8_NoContent ==
  \A i \in Slots :
    (Answered(i) /\ response[i].status = 204 /\ inv[i].op \in VoidOps) =>
      /\ result[i].request = Return(Undef)
      /\ result[i].op = Return(Undef)
      /\ inv[i].tool # Direct =>
           /\ ~result[i].tool.isError
           /\ Prop(result[i].tool.data, "success") = Bool(TRUE)

\* googledrive_delete_file was answered 204 and returned its success message
C8_Witness ==
  /\ Answered(1)
  /\ response[1].status = 204
  /\ response[1].contentType = "application/json; charset=UTF-8"
  /\ inv[1].tool = "googledrive_delete_file"
  /\ result[1].tool = SuccessMessage("File f1 deleted")

\* ------------------------------------------------------------------------
\* C9: for a 2xx response other than 204 the payload is selected by the
\* content type only: a JSON content type yields the parsed JSON payload, any
\* other content type (or none) the raw text payload unchanged.
C9_PayloadByContentType ==
  \A i \in Slots :
    (Answered(i) /\ Ok(response[i].status) /\ response[i].status # 204) =>
      result[i].request =
        IF IncludesApplicationJson(response[i].contentType)
        THEN Return(response[i].body)
        ELSE Return(RawText(response[i].body))

\* ------------------------------------------------------------------------
\* C10 (as stated): in every page a list operation returns, hasMore is true
\* and the token is forwarded verbatim if the underlying call returned a
\* nextPageToken, and hasMore is false and nextPageToken is absent if it
\* returned none: hasMore is true iff nextPageToken is present.
C10_HasMoreIffPresent ==
  \A i \in Slots :
    (Answered(i) /\ inv[i].op \in ListOps /\ result[i].op.k = "return") =>
      LET returned == Prop(result[i].request.v, "nextPageToken")
          page == result[i].op.v
      IN /\ Prop(page, "nextPageToken") = returned
         /\ Prop(page, "hasMore") = Bool(returned.t # "undefined")
         /\ Prop(page, "hasMore") = Bool(Prop(page, "nextPageToken").t # "undefined")

\* C10 (amended): in every page a list operation returns, the nextPageToken
\* of the underlying call is forwarded verbatim (absent stays absent), and
\* hasMore is true iff that token is a non-empty string.
C10_HasMoreIffNonEmptyToken ==
  \A i \in Slots :
    (Answered(i) /\ inv[i].op \in ListOps /\ result[i].op.k = "return") =>
      LET returned == Prop(result[i].request.v, "nextPageToken")
          page == result[i].op.v
      IN /\ Prop(page, "nextPageToken") = returned
         /\ Prop(page, "hasMore") = Bool(NonEmptyString(returned))

\* listReplies returned a page with the token of the remote and hasMore true
C10_Witness ==
  /\ Answered(1)
  /\ inv[1].op = "listReplies"
  /\ Prop(response[1].body, "nextPageToken") = Lit("next1")
  /\ result[1].op.k = "return"
  /\ Prop(result[1].op.v, "nextPageToken") = Lit("next1")
  /\ Prop(result[1].op.v, "hasMore") = Bool(TRUE)
  /\ Prop(result[1].op.v, "items") = Items

\* ------------------------------------------------------------------------
\* How the remote reads the URL of a request: the query is what follows the
\* first "?", its parameters are separated by "&", a name and its value by
\* "=", and the value is percent-decoded ("+" is a space)
IndexOf(s, c) ==
  LET I == {i \in 1..Len(s) : SubSeq(s, i, i) = c}
  IN IF I = {} THEN 0 ELSE CHOOSE i \in I : \A j \in I : i <= j
After(s, i) == IF i >= Len(s) THEN "" ELSE SubSeq(s, i + 1, Len(s))
Before(s, i) == IF i <= 1 THEN "" ELSE SubSeq(s, 1, i - 1)

PercentDecoded(code) ==
  CASE code = "%20" -> " " [] code = "%2C" -> "," [] code = "%28" -> "("
    [] code = "%29" -> ")" [] code = "%27" -> "'" [] code = "%3D" -> "="
    [] code = "%2F" -> "/" [] code = "%26" -> "&" [] code = "%22" -> "\""
    [] OTHER -> code

RECURSIVE FormDecode(_)
FormDecode(s) ==
  LET I == {i \in 1..Len(s) : SubSeq(s, i, i) \in {"%", "+"}}
      first == IF I = {} THEN 0 ELSE CHOOSE i \in I : \A j \in I : i <= j
  IN IF first = 0 THEN s
     ELSE IF SubSeq(s, first, first) = "+"
     THEN Before(s, first) \o " " \o FormDecode(After(s, first))
     ELSE Before(s, first) \o PercentDecoded(SubSeq(s, first, first + 2))
          \o FormDecode(After(s, first + 2))

RECURSIVE QueryParams(_)
QueryParams(query) ==
  IF query = "" THEN <<>>
  ELSE LET amp == IndexOf(query, "&")
           first == IF amp = 0 THEN query ELSE Before(query, amp)
           eq == IndexOf(first, "=")
       IN <<[k |-> IF eq = 0 THEN first ELSE Before(first, eq),
             v |-> IF eq = 0 THEN "" ELSE FormDecode(After(first, eq))]>>
          \o (IF amp = 0 THEN <<>> ELSE QueryParams(After(query, amp)))

QueryOf(url) ==
  LET q == IndexOf(url, "?") IN IF q = 0 THEN <<>> ELSE QueryParams(After(url, q))

\* the values the query of url gives for the parameter named k, in order
ValuesOf(url, k) ==
  LET ps == QueryOf(url)
  IN [j \in 1..Cardinality({n \in 1..Len(ps) : ps[n].k = k}) |->
        ps[CHOOSE n \in 1..Len(ps) :
             /\ ps[n].k = k
             /\ Cardinality({m \in 1..n : ps[m].k = k}) = j].v]

StartsWith(s, prefix) == Len(s) >= Len(prefix) /\ SubSeq(s, 1, Len(prefix)) = prefix
EndsWith(s, suffix) ==
  Len(s) >= Len(suffix) /\ SubSeq(s, Len(s) - Len(suffix) + 1, Len(s)) = suffix

\* slot i has sent the request of client operation op and awaits the response
Sent(i, op) == pc[i] = "fetching" /\ inv[i].op = op

\* ------------------------------------------------------------------------
\* C11: the request of every paginated listing (files, folder contents,
\* permissions, comments, replies, revisions, drives, access proposals) has
\* one fields parameter, and it names nextPageToken together with the
\* resource array of the listing: nextPageToken,<array>(...).
C11_ListingsRequestNextPageToken ==
  \A i \in Slots : \A op \in ListOps :
    Sent(i, op) =>
      LET fields == ValuesOf(fetches[i][Len(fetches[i])].url, "fields")
      IN /\ Len(fields) = 1
         /\ StartsWith(fields[1], "nextPageToken," \o ListKey(op) \o "(")
         /\ EndsWith(fields[1], ")")

\* ------------------------------------------------------------------------
\* the arguments the client operation of slot i was called with
OpArgs(i) == inv[i].args

\* the fields parameter of the request slot i has sent ("" when the request
\* has none or more than one)
FieldsSent(i) ==
  LET fields == ValuesOf(fetches[i][Len(fetches[i])].url, "fields")
  IN IF Len(fields) = 1 THEN fields[1] ELSE ""

\* the projection the reads that take no fields specifier must request
AllFieldsOf(op) ==
  CASE op \in {"listPermissions", "listComments", "listReplies", "listRevisions",
               "listDrives"} -> "nextPageToken," \o ListKey(op) \o "(*)"
    [] op = "listApps" -> "items(*)"
    [] op \in {"getPermission", "getComment", "getReply", "getRevision", "getDrive",
               "getApp"} -> "*"

\* the fields the reads of files and of the account must request when the
\* caller's specifier counts as supplied
ProjectionOf(op, fields, supplied) ==
  CASE op \in {"listFiles", "listFolderContents"} ->
         "nextPageToken,files("
           \o (IF supplied THEN Join(fields.s) ELSE Join(DEFAULT_FILE_FIELDS)) \o ")"
    [] op = "getFile" -> IF supplied THEN Join(fields.s) ELSE Join(DEFAULT_FILE_FIELDS)
    [] op = "getAbout" -> IF supplied THEN Join(fields.s) ELSE "*"

\* C12 (as stated): without a fields specifier, file reads request the
\* default file field set and permission, comment, reply, revision, drive,
\* app and about reads request all fields (*); a fields specifier the caller
\* supplies (any value but undefined) is requested exactly, instead of the
\* default.
C12_SuppliedFieldsRequested ==
  \A i \in Slots :
    /\ \A op \in {"listPermissions", "listComments", "listReplies", "listRevisions",
                  "listDrives", "listApps", "getPermission", "getComment", "getReply",
                  "getRevision", "getDrive", "getApp"} :
         Sent(i, op) => FieldsSent(i) = AllFieldsOf(op)
    /\ \A op \in {"listFiles", "listFolderContents", "getFile", "getAbout"} :
         Sent(i, op) =>
           FieldsSent(i) = ProjectionOf(op, OpArgs(i).fields,
                                        OpArgs(i).fields.t # "undefined")

\* C12 (amended): as above, but for listFiles, listFolderContents and getFile
\* an empty fields specifier counts as omitted (the default file field set is
\* requested), while getAbout requests an empty specifier as it is.
C12_FieldProjection ==
  \A i \in Slots :
    /\ \A op \in {"listPermissions", "listComments", "listReplies", "listRevisions",
                  "listDrives", "listApps", "getPermission", "getComment", "getReply",
                  "getRevision", "getDrive", "getApp"} :
         Sent(i, op) => FieldsSent(i) = AllFieldsOf(op)
    /\ \A op \in {"listFiles", "listFolderContents", "getFile"} :
         Sent(i, op) =>
           FieldsSent(i) = ProjectionOf(op, OpArgs(i).fields, Truthy(OpArgs(i).fields))
    /\ Sent(i, "getAbout") =>
         FieldsSent(i) = ProjectionOf("getAbout", OpArgs(i).fields,
                                      OpArgs(i).fields.t # "undefined")

\* getFile was called with the specifier id,name and its request asks for it
C12_Witness ==
  /\ Sent(1, "getFile")
  /\ OpArgs(1).fields = Str(<<"id", ",", "name">>)
  /\ FieldsSent(1) = "id,name"
  /\ ValuesOf(fetches[1][1].url, "supportsAllDrives") = <<"true">>

\* ------------------------------------------------------------------------
\* How the remote reads a multipart/related body (RFC 2046): the boundary is
\* the parameter of the Content-Type header, a delimiter is a line break, two
\* dashes and the boundary, the parts lie between the delimiters up to the
\* close delimiter, and in a part a blank line separates headers and content
FindIn(s, sub) ==
  LET I == {i \in 1..(Len(s) - Len(sub) + 1) : SubSeq(s, i, i + Len(sub) - 1) = sub}
  IN IF I = {} THEN 0 ELSE CHOOSE i \in I : \A j \in I : i <= j

RECURSIVE Split(_, _)
Split(s, sep) ==
  LET at == FindIn(s, sep)
  IN IF at = 0 THEN <<s>>
     ELSE <<Before(s, at)>> \o Split(After(s, at + Len(sep) - 1), sep)

BoundaryOf(contentType) ==
  LET from == After(contentType, FindIn(contentType, "boundary=\"") + 9)
  IN Before(from, IndexOf(from, "\""))

MultipartParts(text, b) ==
  LET segments == Split(text, "\r\n--" \o b)
      closing == {k \in 2..Len(segments) : StartsWith(segments[k], "--")}
      last == IF closing = {} THEN Len(segments)
              ELSE (CHOOSE k \in closing : \A m \in closing : k <= m) - 1
  IN [k \in 1..(last - 1) |->
        LET part == segments[k + 1]
            blank == FindIn(part, "\r\n\r\n")
        IN [headers |-> Before(part, blank), content |-> After(part, blank + 3)]]

\* JSON.parse of the remote: strings are unescaped, arrays and objects read
\* element by element.  A parsed string holds its characters as one text.
TrailingBackslashes(s) ==
  LET K == {k \in 0..Len(s) :
              \A m \in 1..k : SubSeq(s, Len(s) - m + 1, Len(s) - m + 1) = "\\"}
  IN CHOOSE k \in K : \A m \in K : m <= k

ClosingQuote(s) ==
  LET Q == {j \in 2..Len(s) :
              /\ SubSeq(s, j, j) = "\""
              /\ TrailingBackslashes(IF j = 2 THEN "" ELSE SubSeq(s, 2, j - 1)) % 2 = 0}
  IN CHOOSE j \in Q : \A m \in Q : j <= m

RECURSIVE Unescape(_)
Unescape(s) ==
  LET at == IndexOf(s, "\\")
      c == SubSeq(s, at + 1, at + 1)
  IN IF at = 0 THEN s
     ELSE Before(s, at)
          \o (CASE c = "r" -> "\r" [] c = "n" -> "\n" [] OTHER -> c)
          \o Unescape(After(s, at + 1))

RECURSIVE ParseValue(_)
RECURSIVE ParseItems(_, _)
RECURSIVE ParseMembers(_, _)
ParseValue(s) ==
  CASE SubSeq(s, 1, 1) = "\"" ->
         LET q == ClosingQuote(s)
         IN [v |-> [t |-> "string",
                    text |-> Unescape(IF q = 2 THEN "" ELSE SubSeq(s, 2, q - 1))],
             rest |-> After(s, q)]
    [] SubSeq(s, 1, 1) = "[" -> ParseItems(After(s, 1), <<>>)
    [] SubSeq(s, 1, 1) = "{" -> ParseMembers(After(s, 1), <<>>)
    [] StartsWith(s, "true") -> [v |-> [t |-> "boolean", b |-> TRUE], rest |-> After(s, 4)]
    [] StartsWith(s, "false") -> [v |-> [t |-> "boolean", b |-> FALSE], rest |-> After(s, 5)]
ParseItems(s, items) ==
  IF SubSeq(s, 1, 1) = "]" THEN [v |-> [t |-> "array", items |-> items], rest |-> After(s, 1)]
  ELSE LET r == ParseValue(IF SubSeq(s, 1, 1) = "," THEN After(s, 1) ELSE s)
       IN ParseItems(r.rest, Append(items, r.v))
ParseMembers(s, f) ==
  IF SubSeq(s, 1, 1) = "}" THEN [v |-> [t |-> "object", f |-> f], rest |-> After(s, 1)]
  ELSE LET k == ParseValue(IF SubSeq(s, 1, 1) = "," THEN After(s, 1) ELSE s)
           r == ParseValue(After(k.rest, 1))
       IN ParseMembers(r.rest, (k.v.text :> r.v) @@ f)

\* a value of the caller as JSON.parse gives it back: the characters of a
\* string as one text, the properties that are undefined left out
RECURSIVE Plain(_)
Plain(v) ==
  CASE v.t = "string" -> [t |-> "string", text |-> Join(v.s)]
    [] v.t = "array" -> [t |-> "array", items |-> [j \in 1..Len(v.items) |-> Plain(v.items[j])]]
    [] v.t = "object" ->
         [t |-> "object",
          f |-> [k \in {x \in DOMAIN v.f : v.f[x].t # "undefined"} |-> Plain(v.f[k])]]
    [] OTHER -> v

C15_ChangeCursorsVerbatim ==
  \A i \in Slots :
    (pc[i] = "done" /\ inv[i].op = "listChanges"
       /\ result[i].request.k = "return" /\ result[i].request.v.t = "object") =>
      LET remote == response[i].body
      IN /\ result[i].op.k = "return"
         /\ \A k \in {"nextPageToken", "newStartPageToken"} :
              /\ Prop(result[i].op.v, k) = Prop(remote, k)
              /\ inv[i].tool = "googledrive_list_changes" =>
                   /\ ~result[i].tool.isError
                   /\ Prop(result[i].tool.data, k) = Prop(remote, k)

\* googledrive_list_changes has reported a page whose remote body carried
\* both cursors, with different values
C15_Witness ==
  /\ pc[1] = "done"
  /\ inv[1].tool = "googledrive_list_changes"
  /\ Prop(response[1].body, "nextPageToken") = Lit("next1")
  /\ Prop(response[1].body, "newStartPageToken") = Lit("start2")
  /\ ~result[1].tool.isError
  /\ Prop(result[1].tool.data, "nextPageToken") = Lit("next1")
  /\ Prop(result[1].tool.data, "newStartPageToken") = Lit("start2")

C17_ExactlyOneCall ==
  \A i \in Slots :
    (Done(i) /\ inv[i].tool # Direct /\ ~NoToken(i)) => Len(fetches[i]) = 1

\* C17 (amended): every invocation of a registered tool other than
\* googledrive_move_file on a client with an access token has issued exactly
\* one HTTP request when it returns (a multipart upload being one request).
\* googledrive_move_file issues a GET and then, unless the GET failed or what
\* it returned has no readable parents, in which case the tool returns an
\* error, one PATCH: two requests at most.
C17_OneCallExceptMove ==
  \A i \in Slots :
    (inv[i].tool # Direct /\ ~NoToken(i)) =>
      /\ pc[i] = "fetching" =>
           Len(fetches[i]) = (IF inv[i].op = ToolOp(inv[i].tool) THEN 1 ELSE 2)
      /\ Done(i) =>
           IF inv[i].tool = "googledrive_move_file"
           THEN /\ Len(fetches[i]) \in {1, 2}
                /\ fetches[i][1].method = "GET"
                /\ Len(fetches[i]) = 1 => result[i].tool.isError
                /\ Len(fetches[i]) = 2 => fetches[i][2].method = "PATCH"
           ELSE Len(fetches[i]) = 1

\* googledrive_move_file has returned a success after its GET and its PATCH,
\* which removes the two parents the GET reported
C17_Witness ==
  /\ Done(1)
  /\ inv[1].tool = "googledrive_move_file"
  /\ ~result[1].tool.isError
  /\ Len(fetches[1]) = 2
  /\ fetches[1][1].method = "GET"
  /\ fetches[1][2].method = "PATCH"
  /\ ValuesOf(fetches[1][2].url, "removeParents") = <<"p1,p2">>

\* ------------------------------------------------------------------------
\* C18: nothing is retried locally.  Whenever an invocation receives a
\* response that is a failure (429, 401, 403, 404, 5xx or any other status
\* outside 200..299), that step ends the invocation: no request is added to
\* those it has sent, request() throws the typed error of the status, and the
\* client operation throws that same error to its caller (testConnection
\* reports its message).  A RateLimitError carries the retry-after seconds
\* request() read from that response.
C18_NoLocalRetry ==
  [][\A i \in Slots :
       (/\ pc[i] = "fetching"
        /\ response'[i] # response[i]
        /\ ~Ok(response'[i].status)) =>
         /\ pc'[i] = "done"
         /\ fetches'[i] = fetches[i]
         /\ result'[i].request.k = "throw"
         /\ result'[i].request.err.kind =
              (CASE response'[i].status = 429 -> "RateLimitError"
                 [] response'[i].status = 401 -> "AuthenticationError"
                 [] response'[i].status = 403 -> "ForbiddenError"
                 [] response'[i].status = 404 -> "NotFoundError"
                 [] OTHER -> "GoogleDriveApiError")
         /\ response'[i].status = 429 =>
              result'[i].request.err.retryAfter =
                RetryAfterSeconds(response'[i].retryAfter)
         /\ IF inv[i].op = "testConnection"
            THEN Prop(result'[i].op.v, "message") = MessageOf(result'[i].request.err)
            ELSE result'[i].op = result'[i].request]_vars

\* a tool invocation answered 429 with Retry-After: 120 has ended after its
\* one request with a RateLimitError that carries 120 seconds
C18_Witness ==
  /\ Done(1)
  /\ inv[1].tool = "googledrive_list_files"
  /\ response[1].status = 429
  /\ Len(fetches[1]) = 1
  /\ FailsWith(result[1].op, "RateLimitError")
  /\ result[1].op.err.retryAfter = Num(120)
  /\ result[1].tool.isError

\* ------------------------------------------------------------------------
\* C19: whenever request() has thrown during the invocation of a registered
\* tool, googledrive_test_connection included, the handler returns a result
\* marked isError that carries the error, never a success-shaped result.
C19_ErrorsBecomeFailureResults ==
  \A i \in Slots :
    (Done(i) /\ inv[i].tool # Direct /\ result[i].request.k = "throw") =>
      /\ result[i].tool.isError
      /\ result[i].tool.error = result[i].request.err

C14_UploadRoundTrip ==
  \A i \in Slots :
    (Sent(i, "createFile") /\ fetches[i][1].body.t = "multipart") =>
      LET a == OpArgs(i)
          sent == fetches[i][1]
          parts == MultipartParts(sent.body.text, BoundaryOf(sent.headers.ContentType))
      IN /\ Len(parts) = 2
         /\ ParseValue(parts[1].content).v =
              Plain(Obj([name |-> a.name, mimeType |-> a.mimeType,
                         parents |-> a.parents, description |-> a.description]))
         /\ parts[2].content = Join(a.content.s)

\* ------------------------------------------------------------------------
\* C30: in every result of googledrive_list_changes the hasMore flag and the
\* guidance message agree: hasMore is true exactly when the remote returned a
\* nextPageToken, the message says that more changes are available exactly
\* when hasMore is true, and it says to save newStartPageToken exactly when
\* hasMore is false, whichever of the two tokens the remote response carries.
C30_GuidanceAgreesWithHasMore ==
  \A i \in Slots :
    (Done(i) /\ inv[i].tool = "googledrive_list_changes" /\ ~result[i].tool.isError) =>
      LET data == result[i].tool.data
      IN /\ Prop(data, "hasMore") =
              Bool(Truthy(OptProp(result[i].request.v, "nextPageToken")))
         /\ Prop(data, "message") =
              IF Prop(data, "hasMore") = Bool(TRUE)
              THEN Lit("More changes available. Use nextPageToken to continue.")
              ELSE Lit("No more changes. Save newStartPageToken for future polling.")

\* ------------------------------------------------------------------------
\* C23: the caller chooses the output shape of a tool response: a tool
\* invoked with the formatting preference "markdown" answers with the
\* markdown rendering of its data, and one invoked with "json" or with no
\* preference answers with the JSON serialization.
C23_CallerSelectsRendering ==
  \A i \in Slots :
    (Done(i) /\ inv[i].tool = "googledrive_list_files" /\ ~result[i].tool.isError) =>
      (result[i].tool.data.t = "markdown"
         <=> Args(inv[i].supplied).format = Lit("markdown"))

\* ------------------------------------------------------------------------
\* C29: createFile and updateFile treat a supplied content that is the empty
\* string as no content: the one request of the call goes to the metadata
\* base URL, not to the upload base URL, with Content-Type application/json
\* and the JSON metadata as its body; no multipart body is built and the
\* body carries no content, so updateFile never replaces the content of a
\* file by the empty text.
C29_EmptyContentIsNoContent ==
  \A i \in Slots : \A op \in {"createFile", "updateFile"} :
    (Sent(i, op) /\ OpArgs(i).content = EmptyStr) =>
      LET sent == fetches[i][1]
      IN /\ Len(fetches[i]) = 1
         /\ StartsWith(sent.url, client[i].baseUrl \o "/files")
         /\ ~StartsWith(sent.url, UPLOAD_BASE_URL)
         /\ ValuesOf(sent.url, "uploadType") = <<>>
         /\ sent.method = (IF op = "createFile" THEN "POST" ELSE "PATCH")
         /\ sent.headers.ContentType = "application/json"
         /\ sent.body.t = "json"
         /\ "content" \notin DOMAIN sent.body.v.f

\* updateFile with the empty text as content has sent a metadata-only PATCH
\* of the file to the metadata base URL
C29_Witness ==
  /\ Sent(1, "updateFile")
  /\ OpArgs(1).content = EmptyStr
  /\ OpArgs(1).name = Lit("doc")
  /\ fetches[1][1].method = "PATCH"
  /\ fetches[1][1].body = JsonBody(Obj([name |-> Lit("doc")]))
  /\ StartsWith(fetches[1][1].url, API_BASE_URL \o "/files/f1?")

\* ------------------------------------------------------------------------
\* C28: every request passed to fetch carries the header Authorization:
\* Bearer <the access token of the client's credentials>, and that token is
\* not empty.  The Content-Type override of an upload replaces the
\* Content-Type header only: an upload carries the multipart Content-Type
\* and the same Authorization header, every other request carries
\* application/json.
C28_BearerOnEveryCall ==
  \A i \in Slots : \A k \in 1..Len(fetches[i]) :
    LET sent == fetches[i][k]
        accessToken == client[i].credentials.accessToken
    IN /\ DOMAIN sent.headers = {"Authorization", "ContentType"}
       /\ accessToken.t = "string" /\ accessToken.s # <<>>
       /\ sent.headers.Authorization = "Bearer " \o Join(accessToken.s)
       /\ sent.headers.ContentType =
            IF sent.body.t = "multipart"
            THEN "multipart/related; boundary=\"" \o boundary \o "\""
            ELSE "application/json"

\* a createFile with inline content has sent its upload with the multipart
\* Content-Type and the bearer token of its client
C28_Witness ==
  /\ Sent(1, "createFile")
  /\ fetches[1][1].body.t = "multipart"
  /\ fetches[1][1].headers.ContentType = MultipartContentType
  /\ client[1].credentials.accessToken = Lit("tokA")
  /\ fetches[1][1].headers.Authorization = "Bearer tokA"

\* ------------------------------------------------------------------------
\* C26: the update googledrive_move_file issues is a PATCH of the file whose
\* addParents is newParentId.  Its removeParents is the comma-joined list of
\* all parents the GET of the file returned when removeFromCurrentParent is
\* true (the default), and is absent when removeFromCurrentParent is false
\* or the file has no parents.  So with removeFromCurrentParent true the
\* parents that remain requested are exactly {newParentId}, also when
\* newParentId is one of the current parents.
C26_MoveRequestsNewParentOnly ==
  \A i \in Slots :
    (Sent(i, "updateFile") /\ inv[i].tool = "googledrive_move_file") =>
      LET a == Args(inv[i].supplied)
          patch == fetches[i][Len(fetches[i])]
          read == IF IncludesApplicationJson(response[i].contentType)
                  THEN Prop(response[i].body, "parents")
                  ELSE Undef
          current == IF read.t = "array"
                     THEN [k \in DOMAIN read.items |-> Join(read.items[k].s)]
                     ELSE <<>>
          remove == a.removeFromCurrentParent \in {Undef, Bool(TRUE)}
          removeParents == ValuesOf(patch.url, "removeParents")
          removed == IF removeParents = <<>> THEN <<>> ELSE Split(removeParents[1], ",")
          newParent == Join(a.newParentId.s)
      IN /\ patch.method = "PATCH"
         /\ StartsWith(patch.url, client[i].baseUrl \o "/files/" \o Join(a.fileId.s) \o "?")
         /\ ValuesOf(patch.url, "addParents") = <<newParent>>
         /\ Len(removeParents) = (IF remove /\ current # <<>> THEN 1 ELSE 0)
         /\ removed = (IF remove THEN current ELSE <<>>)
         /\ remove =>
              ({current[k] : k \in DOMAIN current} \ {removed[k] : k \in DOMAIN removed})
                \cup {newParent} = {newParent}

\* googledrive_move_file, moving a file whose parents are p1 and p2 to p1 with
\* the default removeFromCurrentParent, has sent its PATCH
C26_Witness ==
  /\ Sent(1, "updateFile")
  /\ inv[1].tool = "googledrive_move_file"
  /\ Args(inv[1].supplied).newParentId = Lit("p1")
  /\ Args(inv[1].supplied).removeFromCurrentParent = Undef
  /\ Prop(response[1].body, "parents") = Arr(<<Lit("p1"), Lit("p2")>>)
  /\ ValuesOf(fetches[1][2].url, "addParents") = <<"p1">>
  /\ ValuesOf(fetches[1][2].url, "removeParents") = <<"p1,p2">>

\* ------------------------------------------------------------------------
\* C27: in googledrive_move_file the read strictly precedes the update.  The
\* first request is the GET of the file and at most one request, a PATCH,
\* follows it.  The PATCH is issued by the step in which the GET is answered
\* with a success status, and the parents it removes are those of that
\* answer.  When the GET fails with any error of request(), that step ends
\* the invocation: no PATCH is issued and the tool returns an error result
\* carrying the error.
C27_ReadPrecedesUpdate ==
  /\ [](\A i \in Slots :
          (inv[i].tool = "googledrive_move_file" /\ fetches[i] # <<>>) =>
            /\ Len(fetches[i]) <= 2
            /\ fetches[i][1].method = "GET"
            /\ StartsWith(fetches[i][1].url,
                          client[i].baseUrl \o "/files/"
                            \o Join(Args(inv[i].supplied).fileId.s) \o "?")
            /\ Len(fetches[i]) = 2 => fetches[i][2].method = "PATCH"
            /\ (Done(i) /\ Len(fetches[i]) = 1) => result[i].tool.isError)
  /\ [][\A i \in Slots :
          (inv[i].tool = "googledrive_move_file" /\ pc[i] = "fetching") =>
            /\ Len(fetches'[i]) > Len(fetches[i]) =>
                 /\ inv[i].op = "getFile"
                 /\ Len(fetches[i]) = 1
                 /\ response[i] = NoResponse
                 /\ response'[i].status \in 200..299
                 /\ fetches'[i] = Append(fetches[i], fetches'[i][2])
                 /\ LET read == Prop(response'[i].body, "parents")
                        removeParents == ValuesOf(fetches'[i][2].url, "removeParents")
                    IN removeParents # <<>> =>
                         /\ read.t = "array"
                         /\ Split(removeParents[1], ",") =
                              [k \in DOMAIN read.items |-> Join(read.items[k].s)]
            /\ (inv[i].op = "getFile" /\ response'[i] # response[i]
                  /\ result'[i].request.k = "throw") =>
                 /\ fetches'[i] = fetches[i]
                 /\ pc'[i] = "done"
                 /\ result'[i].tool.isError
                 /\ result'[i].tool.error = result'[i].request.err]_vars

\* googledrive_move_file has returned an error result after a GET answered
\* 404, without a PATCH
C27_Witness ==
  /\ Done(1)
  /\ inv[1].tool = "googledrive_move_file"
  /\ Len(fetches[1]) = 1
  /\ fetches[1][1].method = "GET"
  /\ response[1].status = 404
  /\ FailsWith(result[1].request, "NotFoundError")
  /\ result[1].tool.isError


\* ------------------------------------------------------------------------
\* C24: optional parameters of the query string
\* ------------------------------------------------------------------------
\* a direct call of an operation with optional query parameters is on the wire
Parameterised(i) ==
  /\ pc[i] = "fetching"
  /\ inv[i].tool = Direct
  /\ DOMAIN ParamsOf(inv[i].op).optional # {}

\* the values a parameter has in the query string when the caller left it out
\* and the signature or the method body gives it a default
DefaultOf(op, p) ==
  CASE op = "getAbout" /\ p = "fields" -> <<"*">>
    [] op = "getFile" /\ p = "fields" -> <<Join(DEFAULT_FILE_FIELDS)>>
    [] op = "listFiles" /\ p = "fields" ->
         <<"nextPageToken,files(" \o Join(DEFAULT_FILE_FIELDS) \o ")">>
    [] op = "generateIds" /\ p = "count" -> <<"10">>
    [] op = "generateIds" /\ p = "space" -> <<"drive">>
    [] op = "listPermissions" /\ p = "supportsAllDrives" -> <<"true">>
    [] OTHER -> <<>>

\* supplying or omitting one optional parameter leaves every other one as it is
Independent(i) ==
  \A p \in DOMAIN ParamsOf(inv[i].op).optional :
    \A q \in DOMAIN ParamsOf(inv[i].op).optional \ {p} :
      \A x \in {Undef, ParamsOf(inv[i].op).optional[q]} :
        ValuesOf(OpCall(inv[i].op, [OpArgs(i) EXCEPT ![q] = x]).endpoint, p)
          = ValuesOf(inv[i].call.endpoint, p)

\* C24 as stated: an optional parameter that was not supplied does not appear
\* in the query string, and supplying or omitting one parameter never changes
\* whether or how another appears.
C24_OmittedNeverAppears ==
  \A i \in Slots :
    Parameterised(i) =>
      /\ \A p \in DOMAIN ParamsOf(inv[i].op).optional :
           OpArgs(i)[p] = Undef => ValuesOf(fetches[i][1].url, p) = <<>>
      /\ Independent(i)

\* C24 amended: an optional parameter that was not supplied does not appear in
\* the query string unless it has a default (fields of getAbout, getFile and
\* listFiles; count and space of generateIds; supportsAllDrives of
\* listPermissions), and then it appears once with that default; supplying or
\* omitting one parameter never changes whether or how another appears.
C24_OmittedOrDefault ==
  \A i \in Slots :
    Parameterised(i) =>
      /\ \A p \in DOMAIN ParamsOf(inv[i].op).optional :
           OpArgs(i)[p] = Undef =>
             ValuesOf(fetches[i][1].url, p) = DefaultOf(inv[i].op, p)
      /\ Independent(i)

\* listFiles is on the wire with driveId alone supplied: driveId is in the
\* query string, the unsupplied corpora is not, and fields has its default
C24_Witness ==
  /\ Sent(1, "listFiles")
  /\ inv[1].tool = Direct
  /\ {p \in DOMAIN ParamsOf("listFiles").optional : OpArgs(1)[p] # Undef} = {"driveId"}
  /\ ValuesOf(fetches[1][1].url, "driveId") = <<"driveId1">>
  /\ ValuesOf(fetches[1][1].url, "corpora") = <<>>
  /\ ValuesOf(fetches[1][1].url, "fields") = DefaultOf("listFiles", "fields")


\* ------------------------------------------------------------------------
\* C25: the two base endpoints and the base-URL override
\* ------------------------------------------------------------------------
\* the operation on the wire transmits file content
Uploads(i) ==
  /\ inv[i].op \in {"createFile", "updateFile"}
  /\ Truthy(OpArgs(i).content)

Tokenless(i) ==
  /\ inbound[i].request.pathname = "/mcp"
  /\ inbound[i].request.method = "POST"
  /\ "X-Google-Access-Token" \notin DOMAIN inbound[i].request.headers

\* C21: a POST to /mcp without the access-token header is answered with 401
\* and a JSON body that lists the required headers, and nothing else happens
\* for it: no client is constructed, no operation is invoked and no request
\* is sent to the remote service.
C21_TokenlessRejectedFirst ==
  \A i \in Slots :
    Tokenless(i) =>
      /\ pc[i] = "replied"
      /\ inbound[i].reply.status = 401
      /\ inbound[i].reply.contentType = "application/json"
      /\ inbound[i].reply.body.t = "object"
      /\ "required_headers" \in DOMAIN inbound[i].reply.body.f
      /\ inbound[i].reply.body.f.required_headers = Arr(<<Lit("X-Google-Access-Token")>>)
      /\ client[i] = NoClient
      /\ inv[i] = NoInv
      /\ fetches[i] = <<>>
      /\ result[i] = NoResult

\* a tool call without a token has its 401 while the call of a tenant with a
\* token is waiting for the remote service
C21_Witness ==
  /\ Tokenless(1)
  /\ inbound[1].reply.status = 401
  /\ pc[2] = "fetching"
  /\ fetches[1] = <<>>


\* ------------------------------------------------------------------------
\* C22: tenant isolation
\* ------------------------------------------------------------------------
\* the credentials the inbound request of slot i carries in its headers
OwnToken(i) == inbound[i].request.headers["X-Google-Access-Token"]
OwnBaseUrl(i) ==
  IF "X-Google-Base-URL" \in DOMAIN inbound[i].request.headers
  THEN Join(inbound[i].request.headers["X-Google-Base-URL"].s)
  ELSE API_BASE_URL

\* slot i is untouched by a step
Untouched(i) ==
  /\ client'[i] = client[i]
  /\ pc'[i] = pc[i]
  /\ inv'[i] = inv[i]
  /\ fetches'[i] = fetches[i]
  /\ response'[i] = response[i]
  /\ result'[i] = result[i]
  /\ inbound'[i] = inbound[i]

====
